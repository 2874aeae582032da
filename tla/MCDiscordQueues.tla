-------------------------- MODULE MCDiscordQueues --------------------------
(* Small instances of DiscordQueues for TLC.                               *)
EXTENDS DiscordQueues

CONSTANTS c1, c2, e1, e2, e3, o1, o2

\* e2 is for another channel than e1 and e3.
MCChannel == [e \in Embeds |-> IF e = e2 THEN c2 ELSE c1]

\* Any two fit into a message, but all three do not, and e2 is not put twice
\* into one.
MCSize == [e \in Embeds |-> IF e = e2 THEN 3 ELSE 2]

\* o1 is posted to a hook in the channel of e1; o2 is not retried.
MCKey == [o \in Ops |-> IF o = o1 THEN c1 ELSE c2]
MCMaxRetry == [o \in Ops |-> IF o = o2 THEN 0 ELSE 1]
=============================================================================
