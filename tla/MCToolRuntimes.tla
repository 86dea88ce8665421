---------------------------- MODULE MCToolRuntimes ----------------------------
EXTENDS ToolRuntimes, TLC

\* In quarters of a second: less and more than a search waits for.
Waits == {<<>>, <<8>>, <<40>>}

\* A search finds nothing, or any three results.
Found    == {"dated", "undated", "denied", "elsewhere", "old", "late"}
AnyThree == {<<>>} \cup [1..3 -> Found]

\* A source is one page, two or three.
Texts == {{0}, {0, 2}, {0, 2, 3}, {0, 3}}

\* In seconds: less and more than a fetch waits for.
FetchWaits == {<<>>, <<2>>, <<60>>}

\* A directory, or a link, with a file and a directory in it, and a file beside.
WorkbenchDirectory(n) == IF n = 2 THEN 1 ELSE IF n = 4 THEN 1 ELSE Root
WorkbenchKinds(n) ==
    CASE n = 1 -> {"dir", "link"}
      [] n = 2 -> {"two", "binary"}
      [] n = 3 -> {"one", "big"}
      [] n = 4 -> {"dir"}
=============================================================================
