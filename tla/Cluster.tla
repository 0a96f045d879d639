------------------------------- MODULE Cluster -------------------------------
(***************************************************************************)
(* From the table of segments to the commands sent to them: the program    *)
(* reads gp_segment_configuration, or the file the fts process dumps it    *)
(* into, builds a Cluster from the list, and generates commands for the    *)
(* segments or hosts of a scope (cluster/cluster.go).                      *)
(*                                                                         *)
(* The loops of NewCluster and GenerateCommandList take one step per       *)
(* element.  The pointers of ByContent and ByHost are positions in         *)
(* Segments.  The program runs on the host of the coordinator.             *)
(***************************************************************************)
EXTENDS Integers, Sequences, FiniteSets, SequencesExt

CONSTANTS Content,   \* content ids of the segments; the coordinator's is -1
          Host,      \* hostnames
          NoHost     \* the empty hostname

ASSUME ClusterAssumption == /\ Content \subseteq Nat /\ IsFiniteSet(Content)
                            /\ NoHost \notin Host

Coordinator == -1
ContentID   == Content \cup {Coordinator}

VARIABLES
  catalog,     \* host of the primary and of the mirror of every content
  pc,          \* "start", "failed", "build", "ready", "generate", "generated"
  roles,       \* history: the roles that were read
  next,        \* position of the loop that runs
  Segments,    \* the fields of Cluster
  ByContent,   \*   no entry is <<>>
  ByHost,
  Hostnames,
  ContentIDs,
  scope,       \* the scope of the commands; the bit ON_HOSTS is not looked at
  generator,   \* takes a "content", a "host", or has an "other" signature
  commands     \* the ShellCommands generated

clusterVars == <<Segments, ByContent, ByHost, Hostnames, ContentIDs>>
commandVars == <<scope, generator, commands>>
vars        == <<catalog, pc, roles, next, clusterVars, commandVars>>

SegConfig == [content : ContentID, role : {"p", "m"}, host : Host]
Scope     == SUBSET {"coordinator", "local", "mirrors"}     \* the bits that are 1

\* Content or Host are meaningful as the generator is; target is the host a
\* command is for, which gets it over ssh unless bash is TRUE.
ShellCommand == [content : ContentID \cup {-2}, host : Host \cup {NoHost},
                 target : Host, bash : BOOLEAN]

TypeOK ==
  /\ catalog \in [ContentID -> [p : Host, m : Host \cup {NoHost}]]
  /\ pc \in {"start", "failed", "build", "ready", "generate", "generated"}
  /\ roles \subseteq {"p", "m"}
  /\ next \in Nat \ {0}
  /\ Segments \in Seq(SegConfig)
  /\ ByContent \in [ContentID -> Seq(1 .. Len(Segments))]
  /\ ByHost \in [Host -> Seq(1 .. Len(Segments))]
  /\ Hostnames \in Seq(Host)
  /\ ContentIDs \in Seq(ContentID)
  /\ scope \in Scope
  /\ generator \in {"content", "host", "other"}
  /\ commands \in Seq(ShellCommand)

Init ==
  /\ catalog \in [ContentID -> [p : Host, m : Host \cup {NoHost}]]
  /\ pc = "start"
  /\ roles = {}
  /\ next = 1
  /\ Segments = <<>>
  /\ ByContent = [c \in ContentID |-> <<>>]
  /\ ByHost = [h \in Host |-> <<>>]
  /\ Hostnames = <<>>
  /\ ContentIDs = <<>>
  /\ scope = {}
  /\ generator = "content"
  /\ commands = <<>>

-----------------------------------------------------------------------------
(* Reading the list of segments.                                           *)

\* The rows of gp_segment_configuration.
Rows == {[content |-> c, role |-> "p", host |-> catalog[c].p] : c \in ContentID}
        \cup {[content |-> c, role |-> "m", host |-> catalog[c].m] :
                c \in {d \in ContentID : catalog[d].m # NoHost}}

\* The orderings of a set that are sorted; one, when the order is strict.
Sorted(S, Before(_, _)) ==
  {s \in SetToSeqs(S) : \A j, k \in DOMAIN s : j < k => Before(s[j], s[k])}

\* ORDER BY content, role DESC
RowOrder(a, b) == \/ a.content < b.content
                  \/ a.content = b.content /\ a.role = "p" /\ b.role = "m"

\* getMirrors is the list of optional booleans.
RolesRead(getMirrors) ==
  IF Len(getMirrors) = 2 /\ getMirrors[2] THEN {"m"}
  ELSE IF Len(getMirrors) = 1 /\ getMirrors[1] THEN {"p", "m"}
  ELSE {"p"}

ReadFails ==
  /\ pc \in {"start", "failed"}
  /\ pc' = "failed"
  /\ UNCHANGED <<catalog, roles, next, clusterVars, commandVars>>

\* The caller passes the list it has read to NewCluster.
StartBuild(list, read) ==
  /\ pc' = "build"
  /\ roles' = read
  /\ Segments' = list
  /\ UNCHANGED <<catalog, next, ByContent, ByHost, Hostnames, ContentIDs, commandVars>>

GetSegmentConfiguration(getMirrors) ==
  /\ pc \in {"start", "failed"}
  /\ LET read == RolesRead(getMirrors)
     IN  \E list \in Sorted({r \in Rows : r.role \in read}, RowOrder) : StartBuild(list, read)

\* mutant: what was read before the malformed line is returned
FromFilePartly(lines, malformed) ==
  /\ pc \in {"start", "failed"}
  /\ StartBuild(IF malformed \in 1 .. Len(lines) THEN SubSeq(lines, 1, malformed - 1) ELSE lines,
                {"p", "m"})

\* The lines of the file come in any order.  One that does not parse, at
\* position malformed, makes the whole read fail.
GetSegmentConfigurationFromFile(lines, malformed) ==
  /\ pc \in {"start", "failed"}
  /\ IF malformed \in 1 .. Len(lines)
       THEN ReadFails
       ELSE StartBuild(lines, {"p", "m"})

-----------------------------------------------------------------------------
(* NewCluster.                                                             *)

KeepOrder(list) == list      \* mutant
PrimaryFirst(list) ==
  IF Len(list) = 2 /\ Segments[list[1]].role = "m" THEN <<list[2], list[1]>> ELSE list

EveryHostname(host) == TRUE      \* mutant
FirstOnHost(host) == ByHost[host] = <<>>

AddSegment ==
  /\ pc = "build"
  /\ next <= Len(Segments)
  /\ LET seg == Segments[next]
     IN  /\ ByContent' = [ByContent EXCEPT ![seg.content] = PrimaryFirst(Append(@, next))]
         /\ ByHost' = [ByHost EXCEPT ![seg.host] = Append(@, next)]
         /\ Hostnames' = IF FirstOnHost(seg.host) THEN Append(Hostnames, seg.host) ELSE Hostnames
  /\ next' = next + 1
  /\ UNCHANGED <<catalog, pc, roles, Segments, ContentIDs, commandVars>>

AnyOrder(contents) == SetToSeqs(contents)      \* mutant
ContentOrder(contents) == Sorted(contents, <)

FinishBuild ==
  /\ pc = "build"
  /\ next > Len(Segments)
  /\ ContentIDs' \in ContentOrder({c \in ContentID : ByContent[c] # <<>>})
  /\ pc' = "ready"
  /\ UNCHANGED <<catalog, roles, next, Segments, ByContent, ByHost, Hostnames, commandVars>>

-----------------------------------------------------------------------------
(* GenerateSSHCommandList.                                                 *)

\* mutant: a lone segment is taken for one without a primary
SegmentOfPair(list, role) == IF Len(list) < 2 THEN 0 ELSE list[IF role = "m" THEN 2 ELSE 1]

\* getSegmentByRole; 0 is nil.
SegmentByRole(list, role) ==
  IF role = "m" THEN (IF Len(list) < 2 THEN 0 ELSE list[2])
                ELSE (IF Len(list) = 0 THEN 0 ELSE list[1])

\* All of Get[Dbid,Port,Host,Dir]ForContent look up a segment in this way.
GetHostForContent(c, role) ==
  LET i == SegmentByRole(ByContent[c], role) IN IF i = 0 THEN NoHost ELSE Segments[i].host

Generate(s, g) ==
  /\ pc \in {"ready", "generated"}
  /\ scope' = s
  /\ generator' = g
  /\ commands' = <<>>
  /\ next' = 1
  /\ pc' = IF g = "other" THEN "generated" ELSE "generate"
  /\ UNCHANGED <<catalog, roles, clusterVars>>

\* mutant: takes the standby's host for the local one
StandbyLocal(host) == host = GetHostForContent(Coordinator, "m") \/ "local" \in scope
UseLocal(host) == host = GetHostForContent(Coordinator, "p") \/ "local" \in scope

NewSSHCommand(content, host, target) ==
  [content |-> content, host |-> host, target |-> target, bash |-> UseLocal(target)]

SkipContent(c) == c = Coordinator /\ "coordinator" \notin scope

HostHasOneContent(h) == Len(ByHost[h]) = 1

\* mutants: a host is skipped although it has segments; the standby is not skipped
SkipCoordinatorHost(h) == h = GetHostForContent(Coordinator, "p") /\ "coordinator" \notin scope
SkipNoStandby(h) == SkipCoordinatorHost(h) /\ HostHasOneContent(h)

SkipHost(h) ==
  /\ HostHasOneContent(h)
  /\ \/ h = GetHostForContent(Coordinator, "p") /\ "coordinator" \notin scope
     \/ h = GetHostForContent(Coordinator, "m") /\ "mirrors" \notin scope

GenerateForContent ==
  /\ pc = "generate"
  /\ generator = "content"
  /\ next <= Len(ContentIDs)
  /\ LET c == ContentIDs[next]
     IN  commands' = IF SkipContent(c) THEN commands
                     ELSE Append(commands, NewSSHCommand(c, NoHost, GetHostForContent(c, "p")))
  /\ next' = next + 1
  /\ UNCHANGED <<catalog, pc, roles, clusterVars, scope, generator>>

GenerateForHost ==
  /\ pc = "generate"
  /\ generator = "host"
  /\ next <= Len(Hostnames)
  /\ LET h == Hostnames[next]
     IN  commands' = IF SkipHost(h) THEN commands
                     ELSE Append(commands, NewSSHCommand(-2, h, h))
  /\ next' = next + 1
  /\ UNCHANGED <<catalog, pc, roles, clusterVars, scope, generator>>

FinishGenerate ==
  /\ pc = "generate"
  /\ next > Len(IF generator = "content" THEN ContentIDs ELSE Hostnames)
  /\ pc' = "generated"
  /\ UNCHANGED <<catalog, roles, next, clusterVars, commandVars>>

-----------------------------------------------------------------------------
GetMirrors == UNION {[1 .. n -> BOOLEAN] : n \in 0 .. 2}

Next == \/ ReadFails
        \/ \E getMirrors \in GetMirrors : GetSegmentConfiguration(getMirrors)
        \/ \E lines \in SetToSeqs(Rows), malformed \in 0 .. Cardinality(Rows) :
             GetSegmentConfigurationFromFile(lines, malformed)
        \/ AddSegment \/ FinishBuild
        \/ \E s \in Scope, g \in {"content", "host", "other"} : Generate(s, g)
        \/ GenerateForContent \/ GenerateForHost \/ FinishGenerate

Spec == Init /\ [][Next]_vars

-----------------------------------------------------------------------------
(* Properties.                                                             *)

Built     == pc \in {"ready", "generate", "generated"}
Generated == pc = "generated" /\ generator # "other"

\* The getters answer from the catalog, whatever the order in which the
\* segments were read: the primary by default, the mirror if there is one.
LookupIsRight ==
  Built /\ "p" \in roles =>
    \A c \in ContentID :
      /\ GetHostForContent(c, "p") = catalog[c].p
      /\ GetHostForContent(c, "m") = IF "m" \in roles THEN catalog[c].m ELSE NoHost

\* Every host is listed once and leads to exactly its segments, in the order
\* of the list.
HostsArePartitioned ==
  Built =>
    /\ IsInjective(Hostnames)
    /\ ToSet(Hostnames) = {Segments[i].host : i \in DOMAIN Segments}
    /\ \A h \in Host :
         /\ ToSet(ByHost[h]) = {i \in DOMAIN Segments : Segments[i].host = h}
         /\ \A j, k \in DOMAIN ByHost[h] : j < k => ByHost[h][j] < ByHost[h][k]

\* Commands are generated in the order of the content ids, the coordinator's
\* first, although a Go map is ranged over in any order.
CommandsInOrder ==
  Generated /\ generator = "content" =>
    \A j, k \in DOMAIN commands : j < k => commands[j].content < commands[k].content

\* The hosts on which a segment the scope asks for runs.
HostsAskedFor ==
  {catalog[c].p : c \in Content}
  \cup (IF "coordinator" \in scope THEN {catalog[Coordinator].p} ELSE {})
  \cup (IF "mirrors" \in scope /\ "m" \in roles THEN {catalog[c].m : c \in ContentID} \ {NoHost}
                                                ELSE {})

\* The contents that get a command, whatever the scope says of mirrors: the
\* generator for contents does not look at that bit.  The comment on Scope has
\* INCLUDE_MIRRORS include mirror segments as well as mirror hosts; a mirror
\* segment gets no command of its own.
ContentsAskedFor == IF "coordinator" \in scope THEN ContentID ELSE Content

\* One command for each: no host the scope asks for is left out, whatever else
\* runs on it, and no host gets two commands; the contents asked for get one
\* command each, and no other content gets any.
EachAskedOnce ==
  Generated /\ "p" \in roles =>
    IF generator = "host"
      THEN /\ \A h \in HostsAskedFor : \E k \in DOMAIN commands : commands[k].host = h
           /\ \A j, k \in DOMAIN commands : commands[j].host = commands[k].host => j = k
      ELSE /\ {commands[k].content : k \in DOMAIN commands} = ContentsAskedFor
           /\ \A j, k \in DOMAIN commands : commands[j].content = commands[k].content => j = k

\* A host whose only segment is the coordinator, or the standby, gets no
\* command when the scope leaves these out.
LoneCoordinatorsSpared ==
  Generated /\ generator = "host" /\ "p" \in roles =>
    \A k \in DOMAIN commands :
      LET here == {i \in DOMAIN Segments : Segments[i].host = commands[k].host}
      IN  /\ "coordinator" \notin scope =>
               here # {i \in DOMAIN Segments : Segments[i].content = Coordinator /\ Segments[i].role = "p"}
          /\ "mirrors" \notin scope =>
               here # {i \in DOMAIN Segments : Segments[i].content = Coordinator /\ Segments[i].role = "m"}

RunsOn(command) == IF command.bash THEN catalog[Coordinator].p ELSE command.target

\* A command runs on the machine it is for: on the coordinator's with
\* ON_LOCAL, else on the host of the primary or on the host itself.
RunsWhereMeant ==
  Generated /\ "p" \in roles =>
    \A k \in DOMAIN commands :
      RunsOn(commands[k]) = IF "local" \in scope THEN catalog[Coordinator].p
                            ELSE IF generator = "host" THEN commands[k].host
                            ELSE catalog[commands[k].content].p

\* The comment on Scope: EXCLUDE_MIRRORS excludes mirror segments and hosts
\* from the command list.
MirrorHostsExcluded ==
  Generated /\ generator = "host" /\ "mirrors" \notin scope /\ "p" \in roles =>
    \A k \in DOMAIN commands : \E c \in ContentID : catalog[c].p = commands[k].host

-----------------------------------------------------------------------------
(* The inductive invariant.                                                *)

\* The segments that NewCluster has entered into the maps.
Added == IF pc = "build" THEN 1 .. next - 1 ELSE DOMAIN Segments

StartInv ==
  pc \in {"start", "failed"} =>
    /\ Segments = <<>> /\ next = 1 /\ Hostnames = <<>> /\ ContentIDs = <<>>
    /\ \A c \in ContentID : ByContent[c] = <<>>
    /\ \A h \in Host : ByHost[h] = <<>>

\* The list holds each row that was asked for, once.
ListInv ==
  /\ pc = "build" => next \in 1 .. Len(Segments) + 1 /\ ContentIDs = <<>>
  /\ \A i \in DOMAIN Segments : Segments[i] \in Rows /\ Segments[i].role \in roles
  /\ \A i, j \in DOMAIN Segments : Segments[i] = Segments[j] => i = j
  /\ pc \notin {"start", "failed"} =>
       \A r \in Rows : r.role \in roles => \E i \in DOMAIN Segments : Segments[i] = r

ContentInv ==
  \A c \in ContentID :
    /\ \A k \in DOMAIN ByContent[c] :
         ByContent[c][k] \in Added /\ Segments[ByContent[c][k]].content = c
    /\ \A i \in Added : Segments[i].content = c => \E k \in DOMAIN ByContent[c] : ByContent[c][k] = i
    /\ Len(ByContent[c]) <= 2
    /\ Len(ByContent[c]) = 2 => /\ Segments[ByContent[c][1]].role = "p"
                                /\ Segments[ByContent[c][2]].role = "m"

HostInv ==
  \A h \in Host :
    /\ \A k \in DOMAIN ByHost[h] : ByHost[h][k] \in Added /\ Segments[ByHost[h][k]].host = h
    /\ \A i \in Added : Segments[i].host = h => \E k \in DOMAIN ByHost[h] : ByHost[h][k] = i
    /\ \A j, k \in DOMAIN ByHost[h] : j < k => ByHost[h][j] < ByHost[h][k]

HostnamesInv ==
  /\ \A k \in DOMAIN Hostnames : ByHost[Hostnames[k]] # <<>>
  /\ \A j, k \in DOMAIN Hostnames : Hostnames[j] = Hostnames[k] => j = k
  /\ \A h \in Host : ByHost[h] # <<>> => \E k \in DOMAIN Hostnames : Hostnames[k] = h

CommandInv ==
  /\ \A k \in DOMAIN ContentIDs : ByContent[ContentIDs[k]] # <<>>
  /\ pc \in {"generate", "generated"} =>
       \A k \in DOMAIN commands :
         /\ commands[k].bash = UseLocal(commands[k].target)
         /\ generator = "content" =>
              commands[k].target = GetHostForContent(commands[k].content, "p")
         /\ generator = "content" => commands[k].content \in ContentID
         /\ generator = "host" => commands[k].target = commands[k].host

IInv == TypeOK /\ StartInv /\ ListInv /\ ContentInv /\ HostInv /\ HostnamesInv /\ CommandInv

\* The contents of a built cluster are listed once, in order.
ContentIDsInv ==
  Built =>
    /\ \A j, k \in DOMAIN ContentIDs : j < k => ContentIDs[j] < ContentIDs[k]
    /\ \A c \in ContentID : ByContent[c] # <<>> => \E k \in DOMAIN ContentIDs : ContentIDs[k] = c

\* What a command list is generated for, the elements left out of it, and the
\* one a command is for.
Listed     == IF generator = "content" THEN ContentIDs ELSE Hostnames
Skipped(x) == IF generator = "content" THEN SkipContent(x) ELSE SkipHost(x)
For(k)     == IF generator = "content" THEN commands[k].content ELSE commands[k].host

\* The elements the loop has been through.
Done == IF pc = "generate" THEN 1 .. next - 1 ELSE DOMAIN Listed

\* Those that are not left out have a command, and the commands are in order.
ProgressInv ==
  pc \in {"generate", "generated"} /\ generator # "other" =>
    /\ pc = "generate" => next <= Len(Listed) + 1
    /\ \A k \in DOMAIN commands : \E i \in Done : For(k) = Listed[i] /\ ~Skipped(Listed[i])
    /\ \A i \in Done : ~Skipped(Listed[i]) => \E k \in DOMAIN commands : For(k) = Listed[i]
    /\ \A j, k \in DOMAIN commands :
         j < k => \E h, i \in Done : h < i /\ For(j) = Listed[h] /\ For(k) = Listed[i]

GenerateInv == ContentIDsInv /\ ProgressInv
=============================================================================
