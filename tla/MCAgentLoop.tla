---------------------------- MODULE MCAgentLoop ----------------------------
(* A small instance of AgentLoop: two calls, a reply and a blank reply.    *)
EXTENDS AgentLoop

CONSTANTS a, b, say, blank

MCCalls == {a, b}
MCReplies == {say}
MCBlankReplies == {blank}

Native(cs)  == [calls |-> cs, printed |-> <<>>, text |-> ""]
Printed(cs) == [calls |-> <<>>, printed |-> cs, text |-> "prose"]

\* One call, native or printed as text beside a blank reply; a batch that
\* repeats a call, holds a reply and then makes another call; a reply after a
\* blank one; a blank reply; prose; nothing at all.
MCCompletions ==
  {Native(<<a>>), Printed(<<blank, a>>), Native(<<a, a, say, b>>),
   Native(<<blank, say>>), Printed(<<blank>>), Printed(<<>>), Native(<<>>)}
=============================================================================
