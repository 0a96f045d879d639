------------------------------- MODULE Version -------------------------------
(***************************************************************************)
(* ParseGPVersion and the comparisons of dbconn/version.go.                *)
(*                                                                         *)
(* A banner is a sequence of tokens: words, two of which are the markers   *)
(* of the database's name, and numbers of the form X.Y.Z, which semver     *)
(* refuses if a component has a leading zero or is beyond 64 bits.  A      *)
(* version, and the target of a comparison, is a sequence of one to three  *)
(* components.                                                             *)
(***************************************************************************)
EXTENDS Integers, Sequences

Word(w)     == [word |-> w, num |-> <<>>, semver |-> FALSE]
Number(v)   == [word |-> "", num |-> v, semver |-> TRUE]
Misspelt(v) == [word |-> "", num |-> v, semver |-> FALSE]

\* gpDatabaseMarkers, in the order tried.
Markers == << Word("(Greenplum Database"), Word("(WarehousePG") >>

-----------------------------------------------------------------------------
(* version() of the server, external to this code.  A banner is a record   *)
(* of its shape (version.go:51-58, version_test.go:113-127), of the marker *)
(* and the release in it, a number, or a word in a build without one, and  *)
(* of what stands around them: postgres, before, and compiler, after the   *)
(* marker in the shape "inside" and before it in the shape "after".  The   *)
(* shape "plain" is that of a server which is not Greenplum.               *)

BannerOut(b) ==
  CASE b.shape = "inside" -> b.postgres \o <<b.marker, b.release, Word("build)")>> \o b.compiler
    [] b.shape = "after"  -> b.postgres \o b.compiler \o <<b.marker, Word(")"), b.release, Word("build")>>
    [] OTHER              -> b.postgres \o b.compiler

-----------------------------------------------------------------------------
(* ParseGPVersion.                                                         *)

First(banner, Is(_)) == CHOOSE i \in DOMAIN banner :
                          Is(banner[i]) /\ \A j \in 1 .. i - 1 : ~Is(banner[j])
Has(banner, Is(_))   == \E i \in DOMAIN banner : Is(banner[i])

IsNumber(t) == t.num # <<>>

NoVersion == [ok |-> FALSE, version |-> <<>>, trailer |-> <<>>]

WholeBanner(banner, marker) == banner      \* mutant
\* What strings.Cut leaves after the marker.
AfterMarker(banner, marker) ==
  SubSeq(banner, First(banner, LAMBDA t : t = marker) + 1, Len(banner))

\* The number at that place, and the banner from it on; semver.Make may fail.
VersionAt(rest, at) ==
  [ok      |-> rest[at].semver,
   version |-> IF rest[at].semver THEN rest[at].num ELSE <<>>,
   trailer |-> SubSeq(rest, at, Len(rest))]

\* The version after the first marker there is.
ParseGPVersion(banner) ==
  LET found == {i \in DOMAIN Markers : Has(banner, LAMBDA t : t = Markers[i])}
  IN IF found = {} THEN NoVersion
     ELSE LET rest == AfterMarker(banner, Markers[CHOOSE i \in found : \A j \in found : i <= j])
          IN IF ~Has(rest, IsNumber) THEN NoVersion
             ELSE VersionAt(rest, First(rest, IsNumber))

-----------------------------------------------------------------------------
(* Comparisons.  A target of fewer than three components is completed with *)
(* ".x", which semver reads as the range of all versions that begin so.    *)

Padded(target) == [i \in 1 .. 3 |-> IF i <= Len(target) THEN target[i] ELSE 0]

Less(v, w) == \E i \in 1 .. 3 : v[i] < w[i] /\ \A j \in 1 .. i - 1 : v[j] = w[j]

\* The least version after those that begin with target.
AfterAll(target) == Padded([target EXCEPT ![Len(target)] = @ + 1])

Before(v, target)  == Less(v, Padded(target))
AtLeast(v, target) == ~Less(v, Padded(target))
Is(v, target)      == AtLeast(v, target) /\ Less(v, AfterAll(target))
=============================================================================
