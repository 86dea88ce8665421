----------------------------- MODULE MCLocalData -----------------------------
EXTENDS LocalData

CONSTANTS a, b  \* slugs of titles
MCPage == {<<a, 1>>, <<a, 2>>, <<b, 1>>}
\* One that nothing rests on, one that links to it, and one that revokes the
\* first in favour of the second.
MCDraft == {[title |-> a, links |-> {}, revoked |-> FALSE],
            [title |-> b, links |-> {<<a, 1>>}, revoked |-> FALSE],
            [title |-> a, links |-> {<<b, 1>>}, revoked |-> TRUE]}
=============================================================================
