------------------------ MODULE MCRepositoryContext -------------------------
(***************************************************************************)
(* The path from URL to report on small instances.                         *)
(***************************************************************************)
EXTENDS RepositoryContext

CONSTANTS name, orgs, bad, dot

\* Paths of two segments, and one of each other length.
SomePaths ==
  LET s == [stem |-> name, git |-> 0]
      Owners == {[stem |-> t, git |-> g] : t \in {name, orgs, bad}, g \in 0..1}
  IN  {<<>>, <<s>>, <<s, s, s>>}
        \cup {<<a, b>> : a \in Owners, b \in Segments \ {EmptySegment}}

\* A commit is the lengths of its texts.
SomeCommits == ReadmeLengths \X TreeLengths

Blob(length) == [text |-> length]

\* Every commit with either header, and the odd ones: other branches, a README
\* in upper case, a binary one, an empty repository.
SomeRepositories ==
  LET Of(branch, c, header, lower, upper, data) ==
        [branch |-> branch, commit |-> c, header |-> header, tree |-> c[2],
         readmeLower |-> lower, readmeUpper |-> upper, data |-> data]
  IN  {Of("plain", c, header, Blob(c[1]), Absent, DataSections) :
         c \in Commits, header \in HeaderLengths}
      \cup {Of(branch, c, 232, Blob(c[1]), Absent, {}) :
              branch \in {"readme", "tree", "brace"}, c \in {<<414, 400>>, <<2000, 2000>>}}
      \cup {Of("plain", <<2000, 128>>, 586, Absent, Blob(2000), {"Topics"}),
            Of("plain", <<0, 128>>, 586, Blob(Absent), Blob(2000), {"Topics"}),
            [branch |-> Absent, commit |-> Absent, header |-> 232, tree |-> 0,
             readmeLower |-> Absent, readmeUpper |-> Absent, data |-> {"Topics"}]}
=============================================================================
