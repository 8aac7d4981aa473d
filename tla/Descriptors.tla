------------------------------- MODULE Descriptors -------------------------------
(***************************************************************************)
(* What a table of file descriptors promises its user, whatever lists and  *)
(* marks it is kept in: the descriptor a successful open returns was free, *)
(* stays bound to the device it was opened on until it is closed, a        *)
(* standard stream for as long as the program runs, and a call that fails  *)
(* changes nothing.                                                        *)
(*                                                                         *)
(* A lock has one holder, and nobody opens the device while it is held.    *)
(* That the holder is the only user of its device is not promised: the     *)
(* highest descriptor in use may be open on it too.                        *)
(***************************************************************************)
EXTENDS Integers

CONSTANTS
  Fd,          \* the descriptors
  Std,         \* those of the standard streams, which cannot be given back
  NoDev        \* no device

VARIABLES
  started,     \* the program runs, its standard streams have their devices
  bound,       \* the device each descriptor stands for, or NoDev
  locked,      \* the descriptors that hold their device exclusively
  ret          \* what the last call returned

vars == << started, bound, locked, ret >>

Others(f) == {g \in Fd \ {f} : bound[g] = bound[f]}
Highest(g) == \A h \in Fd : bound[h] # NoDev => h <= g

\* Before the program starts a standard stream is given its device, or is left on
\* the one it has.
Redirect(f, d) ==
  /\ ~started /\ started' \in BOOLEAN
  /\ f \in Std /\ d # NoDev
  /\ bound' = [bound EXCEPT ![f] = d]
  /\ UNCHANGED << locked, ret >>

Start == ~started /\ started' /\ UNCHANGED << bound, locked, ret >>

Running == started /\ UNCHANGED started

Open(f, d) ==
  /\ Running
  /\ bound[f] = NoDev /\ d # NoDev
  /\ \A g \in locked : bound[g] # d
  /\ bound' = [bound EXCEPT ![f] = d]
  /\ locked' = locked /\ ret' = f

\* The descriptor is given back whatever the driver's close returned.
Close(f) ==
  /\ Running
  /\ bound[f] # NoDev /\ f \notin Std
  /\ bound' = [bound EXCEPT ![f] = NoDev]
  /\ locked' = locked \ {f} /\ ret' \in {-1, 0}

Lock(f) ==
  /\ Running
  /\ bound[f] # NoDev
  /\ \A g \in Others(f) : g \notin locked /\ Highest(g)
  /\ locked' = locked \union {f}
  /\ bound' = bound /\ ret' = 0

Unlock(f) ==
  /\ Running
  /\ locked' = locked \ {f}
  /\ bound' = bound /\ ret' = 0

\* Every other call, and every call that fails.
Other == Running /\ UNCHANGED << bound, locked >> /\ ret' \in -1 .. 1

Init ==
  /\ ~started
  /\ \A f \in Fd : bound[f] # NoDev <=> f \in Std
  /\ locked = {} /\ ret = 0

Next ==
  \/ \E f \in Fd : \/ \E d \in {bound'[f]} : Open(f, d) \/ Redirect(f, d)
                   \/ Close(f) \/ Lock(f) \/ Unlock(f)
  \/ Start \/ Other

Spec == Init /\ [][Next]_vars
=============================================================================
