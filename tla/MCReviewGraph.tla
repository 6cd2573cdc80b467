---------------------------- MODULE MCReviewGraph ----------------------------
(* A small instance of ReviewGraph, and with it of LlmChain, for TLC. *)
EXTENDS ReviewGraph

F(line, severity, blocking, message) ==
  [file |-> 1, line |-> line, severity |-> severity, blocking |-> blocking, messages |-> <<message>>]

\* One finding; a worse one on the same line and another, of a made-up
\* severity, on the next; an answer that does not parse.
MCUnparsable == <<F(0, "none", FALSE, "unparsable")>>
MCContents == { MCUnparsable,
                <<F(1, "low", TRUE, "a")>>,
                <<F(1, "high", FALSE, "b"), F(2, "urgent", FALSE, "c")>> }
MCCallers == {"code", "security", "performance", "summary"}
TwoProviders == <<"groq", "gemini">>
OneFileOfTwo == <<FALSE, TRUE>>
=============================================================================
