---------------------------- MODULE ErrorCallback ----------------------------
(***************************************************************************)
(* The error callback an application registers with the CAN driver or the  *)
(* serial driver: two static variables, the function and its argument,     *)
(* stored one after the other without protection, and read by whoever has  *)
(* an error to report.  The drivers' modules instantiate this one.         *)
(*                                                                         *)
(* Registrations are numbered; registration n stores function n, then      *)
(* argument n.  So a registration is under way while the numbers differ.   *)
(***************************************************************************)
EXTENDS Naturals

CONSTANTS MaxRegistrations,  \* bound: registrations
          Unregistering      \* the registrations whose function is NULL

VARIABLES callback,  \* number of the function that is stored, 0 = initial NULL
          argument,  \* number of the argument that is stored
          told       \* history: the call that reported the latest error

registration == <<callback, argument>>

IsNull(function) == function \in Unregistering \cup {0}

Call(function, arg) == [function |-> function, argument |-> arg]
NoCall == Call(0, 0)

Init == callback = 0 /\ argument = 0 /\ told = NoCall

(* The two assignments of a registration, made by one task.                *)
StoreCallback == /\ callback = argument
                 /\ callback < MaxRegistrations
                 /\ callback' = callback + 1
                 /\ UNCHANGED <<argument, told>>

StoreArgument == /\ callback # argument
                 /\ argument' = callback
                 /\ UNCHANGED <<callback, told>>

Register == StoreCallback \/ StoreArgument

(* An interrupt handler tests, loads and calls without a registration in   *)
(* between.                                                                *)
ReportAtOnce == /\ ~IsNull(callback)
                /\ told' = Call(callback, argument)
                /\ UNCHANGED registration

(* A task has tested the function when the variables held `seen`; where    *)
(* after that the program loads function and argument for the call is up   *)
(* to the compiler.                                                        *)
ReportAfter(seen) ==
  /\ \E f \in seen.function..callback, a \in seen.argument..argument :
       told' = Call(f, a)
  /\ UNCHANGED registration

-----------------------------------------------------------------------------
CallbackTypeOK == /\ callback \in 0..MaxRegistrations
                  /\ argument \in 0..MaxRegistrations
                  /\ callback \in {argument, argument + 1}
                  /\ told.function \in 0..MaxRegistrations
                  /\ told.argument \in 0..MaxRegistrations
=============================================================================
