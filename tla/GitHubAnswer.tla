---------------------------- MODULE GitHubAnswer ----------------------------
(***************************************************************************)
(* fetch_repository_context of github_adapter.py: what becomes of GitHub's *)
(* answer.  Text is reduced to its length, lists of data to whether they   *)
(* have an element.                                                        *)
(***************************************************************************)
EXTENDS PromptPayload

CONSTANTS Commits,
          Unknown,       \* the commit of a repository that has none
          Absent,        \* null, or a field that is not there
          Repositories   \* what GitHub answers of a repository, over time

\* A blob has no text if it is binary.  An object that is no blob is {}.
Blobs == [text : ReadmeLengths \cup {Absent}]

DataSections == {"Topics", "Languages", "Recent Activity"}

\* The field repository of an answer.  tree is about the first
\* max_tree_entries entries without those the sanitizer blocks.
Answered == [branch : Branches \cup {Absent}, commit : Commits \cup {Absent},
             header : HeaderLengths, tree : TreeLengths,
             readmeLower : Blobs \cup {Absent}, readmeUpper : Blobs \cup {Absent},
             data : SUBSET DataSections]

\* RepositoryRawContext.  A branch that is null is called HEAD.
Contexts == [branch : Branches, commit : Commits \cup {Unknown},
             header : HeaderLengths, readme : ReadmeLengths, tree : TreeLengths,
             data : SUBSET DataSections]

\* readmeLower or readmeUpper.
Readme(repository) ==
  LET blob == IF repository.readmeLower # Absent THEN repository.readmeLower
              ELSE repository.readmeUpper
  IN  IF blob = Absent THEN 0 ELSE IF blob.text = Absent THEN 0 ELSE blob.text

\* Mutant: one key for all states of a repository.
CommitShaAny(repository) == Unknown

CommitSha(repository) ==
  IF repository.commit = Absent THEN Unknown ELSE repository.commit

RawContext(repository) ==
  [branch |-> IF repository.branch = Absent THEN "plain" ELSE repository.branch,
   commit |-> CommitSha(repository),
   header |-> repository.header,
   readme |-> Readme(repository),
   tree   |-> repository.tree,
   data   |-> repository.data]

\* A commit names its content; an empty repository has neither.
ASSUME AnswerAssumption ==
  /\ 0 \in ReadmeLengths
  /\ Unknown \notin Commits /\ Absent \notin Commits \cup Blobs \cup ReadmeLengths
  /\ Repositories \subseteq Answered
  /\ \A r, s \in Repositories :
       r.commit = s.commit => Readme(r) = Readme(s) /\ r.tree = s.tree

\* What else may come back, and the problem it is raised as.
FetchProblem ==
  [no_token      |-> "github-token-missing",
   bad_status    |-> "github-upstream-error",
   no_answer     |-> "github-upstream-error",
   unresolved    |-> "repository-not-found",
   other_errors  |-> "github-upstream-error",
   no_repository |-> "repository-not-found",
   unreadable    |-> "unexpected"]

FetchProblems == {FetchProblem[outcome] : outcome \in DOMAIN FetchProblem}
=============================================================================
