----------------------------- MODULE VaultTurns -----------------------------
(***************************************************************************)
(* What the root locks promise, without locks, phases or events: a call is *)
(* given all its vaults at once, changes only those while it has them, and *)
(* gives them back at once.  A line of a log is never changed, and a       *)
(* record stays in the log or in the buffer.  Only the flush at shutdown   *)
(* writes to vaults that calls may have, and it only logs.                 *)
(***************************************************************************)
EXTENDS Naturals, Sequences

CONSTANTS RootCount, \* vaults
          Caller,    \* calls that can be in progress at once
          Nil        \* nobody has a vault

Root == 1..RootCount

VARIABLES owner,    \* the call that has each vault
          outdated, \* its directories whose index does not show their entries
          untold,   \* its files whose last write git or search does not know
          log,      \* the lines of its log
          pending,  \* its records that wait to be appended
          flushAt   \* 0 while serving, else the next vault of the last flush

vars == <<owner, outdated, untold, log, pending, flushAt>>
vault == <<outdated, untold, log, pending>>

Init ==
    /\ owner = [r \in Root |-> Nil]
    /\ outdated = [r \in Root |-> {}] /\ untold = [r \in Root |-> {}]
    /\ log = [r \in Root |-> << >>] /\ pending = [r \in Root |-> << >>]
    /\ flushAt = 0

\* A call that has nothing gets all it asked for; nobody else has any of it.
Acquire(c, rs) ==
    /\ rs # {} /\ \A r \in rs : owner[r] = Nil
    /\ \A r \in Root : owner[r] # c
    /\ owner' = [r \in Root |-> IF r \in rs THEN c ELSE owner[r]]
    /\ UNCHANGED <<vault, flushAt>>

Release(c) ==
    /\ \E r \in Root : owner[r] = c
    /\ owner' = [r \in Root |-> IF owner[r] = c THEN Nil ELSE owner[r]]
    /\ UNCHANGED <<vault, flushAt>>

\* Nothing of vault r changes.
Untouched(r) ==
    /\ outdated'[r] = outdated[r] /\ untold'[r] = untold[r]
    /\ log'[r] = log[r] /\ pending'[r] = pending[r]

\* Lines are only added.
LinesStay(r) ==
    /\ Len(log[r]) <= Len(log'[r])
    /\ \A i \in 1..Len(log[r]) : log'[r][i] = log[r][i]

Records(lines, buffer) ==
    {lines[i] : i \in 1..Len(lines)} \cup {buffer[i] : i \in 1..Len(buffer)}

Work(c) ==
    /\ \A r \in Root :
        /\ owner[r] # c => Untouched(r)
        /\ LinesStay(r)
        /\ Records(log[r], pending[r]) \subseteq Records(log'[r], pending'[r])
    /\ UNCHANGED <<owner, flushAt>>

Shutdown == flushAt = 0 /\ flushAt' = 1 /\ UNCHANGED <<owner, vault>>

\* The records of one vault go to its log, as far as that succeeds.
Flush ==
    /\ flushAt \in Root /\ flushAt' = flushAt + 1
    /\ \A r \in Root \ {flushAt} : Untouched(r)
    /\ LinesStay(flushAt)
    /\ Records(log'[flushAt], pending'[flushAt]) = Records(log[flushAt], pending[flushAt])
    /\ UNCHANGED <<owner, outdated>>

Next ==
    \/ \E c \in Caller :
        Release(c) \/ Work(c) \/ \E rs \in SUBSET Root : Acquire(c, rs)
    \/ Shutdown \/ Flush

Spec == Init /\ [][Next]_vars

=============================================================================
