---------------------------- MODULE PromptPayload ----------------------------
(***************************************************************************)
(* build_prompt_payload of context_sanitizer.py over the lengths, in       *)
(* characters, of what it puts together.                                   *)
(***************************************************************************)
EXTENDS Integers

CONSTANTS MaxChars,       \* max_context_tokens * 4
          HeaderLengths,  \* the template with its header and nothing else
          ReadmeLengths,  \* the README, redacted and stripped
          TreeLengths     \* the list of the entries that are not blocked

ASSUME PayloadAssumption ==
  /\ MaxChars \in Nat
  /\ HeaderLengths \subseteq Nat
  /\ ReadmeLengths \subseteq Nat
  /\ TreeLengths \subseteq Nat

\* The header is part of the template that format is called on: a branch named
\* {readme} or {tree} shows that text once more, other braces make format raise.
Branches == {"plain", "readme", "tree", "brace"}

Suffix == 15         \* "\n...[truncated]"
ReadmeMargin == 64
ReadmeFloor == 256
TreeMargin == 32
TreeFloor == 128

Larger(a, b) == IF a > b THEN a ELSE b
Smaller(a, b) == IF a < b THEN a ELSE b

\* len(template.format(readme, tree)).
PromptLength(context, readme, tree) ==
  context.header
    + (IF context.branch = "readme" THEN readme + readme ELSE readme)
    + (IF context.branch = "tree" THEN tree + tree ELSE tree)

\* Mutant: a prompt that just fits is cut too.
FitsBelow(length) == length < MaxChars

Fits(length) == length <= MaxChars

\* len(text[:max(len(text) - overflow - margin, floor)] + suffix).
Cut(length, overflow, margin, floor) ==
  Smaller(length, Larger(length - overflow - margin, floor)) + Suffix
=============================================================================
