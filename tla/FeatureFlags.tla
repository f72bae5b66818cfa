---------------------------- MODULE FeatureFlags ----------------------------
(***************************************************************************)
(* infrastructure/feature-flags/feature-flag.service.ts: one flag in Redis *)
(* and a copy of it in every process.  A process sends its commands over   *)
(* one connection: Redis executes them, and their callers go on, in the    *)
(* order they were sent.  The value of a flag is the number of its write.  *)
(***************************************************************************)
EXTENDS Naturals, Sequences

CONSTANTS
  FlagServers,   \* processes
  MaxChanges,    \* bound on setFlag and deleteFlag
  MaxSent        \* bound on commands one process waits for

ASSUME FlagAssumption == MaxChanges \in Nat /\ MaxSent \in Nat

VARIABLES
  flag,      \* Redis: the flag, 0 if there is none
  changes,   \* writes so far
  copy,      \* localCache of each process, 0 if absent
  sent       \* commands of each process whose callers still wait, in order

flagVars == <<flag, changes, copy, sent>>

Commands == [op : {"get", "set", "del"}, value : 0 .. MaxChanges, ran : BOOLEAN]

FlagTypeOK ==
  /\ flag \in 0 .. MaxChanges
  /\ changes \in 0 .. MaxChanges
  /\ copy \in [FlagServers -> 0 .. MaxChanges]
  /\ sent \in [FlagServers -> Seq(Commands)]
  /\ \A p \in FlagServers : Len(sent[p]) <= MaxSent

FlagInit ==
  /\ flag = 0
  /\ changes = 0
  /\ copy = [p \in FlagServers |-> 0]
  /\ sent = [p \in FlagServers |-> <<>>]

Send(p, op) ==
  /\ Len(sent[p]) < MaxSent
  /\ sent' = [sent EXCEPT ![p] = Append(@, [op |-> op, value |-> 0, ran |-> FALSE])]

(* getFlag without a local copy asks Redis.                                *)
GetFlag(p) ==
  /\ copy[p] = 0
  /\ Send(p, "get")
  /\ UNCHANGED <<flag, changes, copy>>

ChangeFlag(p, op) ==
  /\ op \in {"set", "del"}
  /\ Send(p, op)
  /\ UNCHANGED <<flag, changes, copy>>

(* External: Redis executes the process's next command.                    *)
RunCommand(p, i) ==
  /\ i \in DOMAIN sent[p]
  /\ ~sent[p][i].ran
  /\ \A j \in 1 .. i - 1 : sent[p][j].ran
  /\ LET op == sent[p][i].op
     IN /\ op # "get" => changes < MaxChanges
        /\ changes' = IF op = "get" THEN changes ELSE changes + 1
        /\ flag' = IF op = "get" THEN flag ELSE IF op = "set" THEN changes' ELSE 0
        /\ sent' = [sent EXCEPT ![p][i].ran = TRUE,
                                ![p][i].value = IF op = "get" THEN flag ELSE flag']
  /\ UNCHANGED copy

(* Variant: the callers of two commands may go on in any order.            *)
ResumeUnordered(p) ==
  /\ \E i \in DOMAIN sent[p] :
       /\ sent[p][i].ran
       /\ copy' = [copy EXCEPT ![p] =
                     IF sent[p][i].op = "get" /\ sent[p][i].value = 0 THEN @ ELSE sent[p][i].value]
       /\ sent' = [sent EXCEPT ![p] = SubSeq(@, 1, i - 1) \o SubSeq(@, i + 1, Len(@))]
  /\ UNCHANGED <<flag, changes>>

(* The caller goes on: localCache.set with the value read (if any) or      *)
(* written, or localCache.delete.                                          *)
Resume(p) ==
  /\ sent[p] # <<>>
  /\ Head(sent[p]).ran
  /\ copy' = [copy EXCEPT ![p] =
                IF Head(sent[p]).op = "get" /\ Head(sent[p]).value = 0 THEN @
                ELSE Head(sent[p]).value]
  /\ sent' = [sent EXCEPT ![p] = Tail(@)]
  /\ UNCHANGED <<flag, changes>>

FlagNext ==
  \E p \in FlagServers :
    \/ GetFlag(p)
    \/ \E op \in {"set", "del"} : ChangeFlag(p, op)
    \/ \E i \in 1 .. MaxSent : RunCommand(p, i)
    \/ Resume(p)

FlagSpec == FlagInit /\ [][FlagNext]_flagVars

-----------------------------------------------------------------------------
(* A process never goes back from a newer version of the flag to an older  *)
(* one: a getFlag that waits while another call writes does not undo it.   *)
CopiesNeverGoBack ==
  [][\A p \in FlagServers :
       copy[p] # 0 /\ copy'[p] # 0 => copy'[p] >= copy[p]]_flagVars
=============================================================================
