------------------------ MODULE MCScreenshotFrames ------------------------
(* ScreenshotFrames for TLC: the options tried.                            *)
EXTENDS ScreenshotFrames

Option(kind, frames, tokens) == [kind |-> kind, frames |-> frames, tokens |-> tokens]

MCLists == {Option("list", frames, <<>>) :
              frames \in {{}, {0}, {3}, {1, 4}, {0, 1, 2}, {2, 9}}}

MCRanges == {Option("range", {}, <<start, Dash, count>>) :
               start \in 0 .. 3, count \in 0 .. 3}
            \cup {Option("range", {}, <<start, Dash, count, Dash, interval>>) :
                    start \in 0 .. 2, count \in 0 .. 5, interval \in 0 .. 3}

\* "4-", "-", "-3-2", "1--2", "1-2-", "1-2-3-4", "1-x", "x-3"
MCMalformed == {Option("range", {}, tokens) :
                  tokens \in {<<4, Dash>>, <<Dash>>, <<Dash, 3, Dash, 2>>,
                              <<1, Dash, Dash, 2>>, <<1, Dash, 2, Dash>>,
                              <<1, Dash, 2, Dash, 3, Dash, 4>>,
                              <<1, Dash, Other>>, <<Other, Dash, 3>>}}

MCOptions ==
  {opt \in MCLists \cup MCRanges \cup MCMalformed
           \cup {Option("all", {}, <<>>), Option("none", {}, <<>>)} :
     ~LateUnlimited(opt)}
=============================================================================
