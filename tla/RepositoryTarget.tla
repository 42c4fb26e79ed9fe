-------------------------- MODULE RepositoryTarget --------------------------
(***************************************************************************)
(* parse_github_repository_url of url_validator.py, over URLs reduced to   *)
(* what it tests: scheme and host, the segments of the path, and in a      *)
(* segment the suffixes ".git" after its stem.                             *)
(***************************************************************************)
EXTENDS Naturals, Sequences

CONSTANTS Stems,        \* what a segment is called without its suffixes
          NoStem,       \* the empty stem, of a segment such as ".git"
          Reserved,     \* orgs, users, settings, explore, features
          Unsupported,  \* stems with a character outside the regex
          MaxSuffixes,  \* suffixes ".git" a segment may end in
          None

ASSUME TargetAssumption ==
  /\ NoStem \notin Stems
  /\ Reserved \subseteq Stems /\ Unsupported \subseteq Stems
  /\ MaxSuffixes \in Nat

Segments == [stem : Stems \cup {NoStem}, git : 0..MaxSuffixes]
EmptySegment == [stem |-> NoStem, git |-> 0]

\* github: https and one of GitHub's two hosts; malformed: urlparse raises.
\* The path has lost its empty segments.
Sites == {"github", "other", "malformed"}
URLs == [site : Sites, path : Seq(Segments \ {EmptySegment})]

Targets == [owner : Segments, repo : Segments]

ASSUME NoTargetAssumption == None \notin Targets

\* repo.removesuffix(".git"): one suffix, not all.
Stripped(segment) ==
  IF segment.git > 0 THEN [segment EXCEPT !.git = @ - 1] ELSE segment

ValidOwner(segment) ==
  /\ segment.stem \notin Unsupported
  /\ ~(segment.stem \in Reserved /\ segment.git = 0)

ValidRepo(segment) == segment # EmptySegment /\ segment.stem \notin Unsupported

Parse(url) ==
  IF /\ url.site = "github"
     /\ Len(url.path) = 2
     /\ ValidOwner(url.path[1])
     /\ ValidRepo(Stripped(url.path[2]))
  THEN [owner |-> url.path[1], repo |-> Stripped(url.path[2])]
  ELSE None

\* canonical_url of the target.
Canonical(target) == [site |-> "github", path |-> <<target.owner, target.repo>>]
=============================================================================
