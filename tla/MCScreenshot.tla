---------------------------- MODULE MCScreenshot ----------------------------
(* Screenshot for TLC: the options tried.                                  *)
EXTENDS Screenshot, TLC

Option(kind, frames, tokens) == [kind |-> kind, frames |-> frames, tokens |-> tokens]

\* "1", "0,2", "0-2", "1-2-0", none at all
MCOptions ==
  {Option("list", {1}, <<>>), Option("list", {0, 2}, <<>>),
   Option("range", {}, <<0, Dash, 2>>), Option("range", {}, <<1, Dash, 2, Dash, 0>>),
   Option("none", {}, <<>>)}

\* Handles, swapchains and images are interchangeable when every queue is a
\* graphics queue.
MCSymmetry ==
  Permutations(Handles) \cup Permutations(Swapchains) \cup Permutations(Images)
=============================================================================
