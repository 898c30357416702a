------------------------------- MODULE Mailbox -------------------------------
(***************************************************************************)
(* What a message queue of the kernel promises, without scheduler, locks   *)
(* or wait queues: writes append, a reader takes the oldest message, each  *)
(* message is taken by one reader, and a message does not stay in a queue  *)
(* for ever while a reader wants one.                                      *)
(***************************************************************************)
EXTENDS Sequences

CONSTANTS Client, Box, Letter, None

VARIABLES
    box,      \* box[b]: the letters of b, oldest first
    waiting,  \* waiting[b]: the clients that want a letter from b
    letter    \* letter[c]: the letter c has written or taken, or None

mailVars == <<box, waiting, letter>>

MailInit ==
    /\ box = [b \in Box |-> <<>>]
    /\ waiting = [b \in Box |-> {}]
    /\ letter = [c \in Client |-> None]

Ask(c, b) ==
    /\ letter[c] = None
    /\ \A d \in Box : c \notin waiting[d]
    /\ waiting' = [waiting EXCEPT ![b] = @ \cup {c}]
    /\ UNCHANGED <<box, letter>>

Take(c, b) ==
    /\ c \in waiting[b]
    /\ box[b] # <<>>
    /\ letter' = [letter EXCEPT ![c] = Head(box[b])]
    /\ box' = [box EXCEPT ![b] = Tail(@)]
    /\ waiting' = [waiting EXCEPT ![b] = @ \ {c}]

Write(c) ==
    /\ letter[c] = None
    /\ \A d \in Box : c \notin waiting[d]
    /\ \E l \in Letter : letter' = [letter EXCEPT ![c] = l]
    /\ UNCHANGED <<box, waiting>>

Send(c, b) ==
    /\ letter[c] # None
    /\ box' = [box EXCEPT ![b] = Append(@, letter[c])]
    /\ letter' = [letter EXCEPT ![c] = None]
    /\ UNCHANGED waiting

Drop(c) ==
    /\ letter[c] # None
    /\ letter' = [letter EXCEPT ![c] = None]
    /\ UNCHANGED <<box, waiting>>

MailNext ==
    \E c \in Client :
        \/ Write(c) \/ Drop(c)
        \/ \E b \in Box : Ask(c, b) \/ Take(c, b) \/ Send(c, b)

MailSpec ==
    /\ MailInit
    /\ [][MailNext]_mailVars
    /\ \A b \in Box : WF_mailVars(\E c \in Client : Take(c, b))
=============================================================================
