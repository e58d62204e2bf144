-------------------------- MODULE OrderedBroadcast --------------------------
(***************************************************************************)
(* What the hub promises to its clients, without saying how: there is one  *)
(* log.  Who joins is sent the log as it stands; from then on a member is  *)
(* sent exactly what is added, once and in order.  Additions carry numbers *)
(* above all that anybody was ever sent.  The log may forget entries, and  *)
(* an addition that is forgotten in the same step never was.  Members may  *)
(* leave at any step.                                                      *)
(*                                                                         *)
(* TopologyServer implements it: log is mHistory, members are the keys of  *)
(* mClients, sent is what was written to each descriptor.                  *)
(***************************************************************************)
EXTENDS TopologyMessages

CONSTANT Ids    \* whoever may join

VARIABLES log, members, sent, halted

bcastVars == <<log, members, sent, halted>>

\* Numbers that somebody was sent.
SentSeqs == UNION {{sent[c][i].seq : i \in DOMAIN sent[c]} : c \in DOMAIN sent}

\* A sequence with only the entries that are in a set.
Only(s, entries) == SubsequenceAt(s, {i \in DOMAIN s : s[i] \in entries})

BroadcastInit ==
    /\ SortedBySeq(log)
    /\ members = {}
    /\ sent = <<>>
    /\ halted = FALSE

MemberJoins(c) ==
    /\ ~halted
    /\ c \notin DOMAIN sent
    /\ sent' = [d \in DOMAIN sent \cup {c} |-> IF d = c THEN log ELSE sent[d]]
    /\ members' = members \cup {c}
    /\ UNCHANGED <<log, halted>>

LogChanges ==
    /\ ~halted
    /\ members' \subseteq members
    /\ \E k \in 0..Len(log') :
          LET kept == SubSeq(log', 1, k)
              news == SubSeq(log', k + 1, Len(log'))
          IN  /\ \A i \in DOMAIN news : \A seq \in SentSeqs : seq < news[i].seq
              /\ StrictlySortedBySeq(news)
              /\ kept = Only(log, {kept[i] : i \in 1..k})
              /\ sent' = [c \in DOMAIN sent |->
                             IF c \in members' THEN sent[c] \o news ELSE sent[c]]
    /\ UNCHANGED halted

\* The process ends.
Halts ==
    /\ ~halted
    /\ halted' = TRUE
    /\ UNCHANGED <<log, members, sent>>

BroadcastNext == (\E c \in Ids : MemberJoins(c)) \/ LogChanges \/ Halts

BroadcastSpec == BroadcastInit /\ [][BroadcastNext]_bcastVars
=============================================================================
