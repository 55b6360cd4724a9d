---------------------------- MODULE MCMemoSetup ----------------------------
(* Instances of MemoSetup for TLC: words of 6 bits, pages of 4 bytes, GiBs of 8. *)
EXTENDS MemoSetup

Opt(opt, nums) == [opt : {opt}, num : nums, den : {1}]

\* For every option that main() acts on, values on either side of its checks;
\* -m 2 is less than a page, -m 10 does not divide by 3, -S 9 does not fit a word.
AnyOptions ==
    Opt("t", {-1, 0, 2, 9}) \union Opt("m", {-1, 0, 2, 10}) \union Opt("S", {1, 9})
      \union Opt("n", {1, 2}) \union Opt("d", {1}) \union Opt("o", {4, 5})
      \union Opt("a", {0, 1, 2}) \union Opt("b", {1})
      \union Opt("i", {-1, 0}) \union Opt("h", {0})
      \union {[opt |-> "R", num |-> 20, den |-> 80],
              [opt |-> "R", num |-> 0, den |-> 80]}

\* A word left in memory: no node, or either node.
AnyInts == {-1, 0, 1}
=============================================================================
