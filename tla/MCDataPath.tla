----------------------------- MODULE MCDataPath -----------------------------
EXTENDS DataPath

\* The sender makes all calls from outside onMessage, with strings that it keeps
\* or drops, or the loop's thread does.
OneCaller == {[sends |-> TRUE,  shuts |-> "sender", keeps |-> TRUE],
              [sends |-> TRUE,  shuts |-> "sender", keeps |-> FALSE],
              [sends |-> FALSE, shuts |-> "loop",   keeps |-> TRUE]}

\* The sender sends, the loop's thread shuts down.
TwoCallers == {[sends |-> TRUE, shuts |-> "loop", keeps |-> TRUE]}

\* Nothing but the echo.
EchoOnly == {[sends |-> FALSE, shuts |-> "loop", keeps |-> TRUE]}
=============================================================================
