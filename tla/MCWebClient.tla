----------------------------- MODULE MCWebClient -----------------------------
\* WebClient with small bounds.
EXTENDS WebClient

\* Posts, and messages, 2 and 3 were created in the same second.
MCSecond == <<1, 2, 2, 3>>
=============================================================================
