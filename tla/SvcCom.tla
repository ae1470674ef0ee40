------------------------------- MODULE SvcCom -------------------------------
(***************************************************************************)
(* What a Svc.Com communication adapter promises to the stack above it, as *)
(* lora-fprime-demo/lib/fprime/docs/reference/                             *)
(* communication-adapter-interface.md (lines 98-116) describes it: one     *)
(* SUCCESS at start, one status for each dataIn, the buffer returned       *)
(* before that status, no dataIn unless the last status was SUCCESS, and   *)
(* one more SUCCESS after each FAILURE.  ComStack is shown to implement    *)
(* the safety part (Spec); the liveness part is stated there.              *)
(***************************************************************************)

VARIABLES
    link,       \* "Init" | "Ready" | "Busy" | "Failed"
    holding     \* the adapter holds a data buffer it has not returned yet

vars == <<link, holding>>

Links == {"Init", "Ready", "Busy", "Failed"}

TypeOK == /\ link \in Links
          /\ holding \in BOOLEAN

Init == /\ link = "Init"
        /\ holding = FALSE

(* The SUCCESS that opens the data flow.                                   *)
Startup == /\ link = "Init"
           /\ link' = "Ready"
           /\ UNCHANGED holding

(* dataIn: legal only after a SUCCESS that no earlier dataIn has used.     *)
DataIn == /\ link = "Ready"
          /\ link' = "Busy"
          /\ holding' = TRUE

(* dataReturnOut.                                                          *)
DataReturn == /\ link = "Busy"
              /\ holding
              /\ holding' = FALSE
              /\ UNCHANGED link

(* comStatusOut for the dataIn being served, after its buffer is returned. *)
Status == /\ link = "Busy"
          /\ ~holding
          /\ link' \in {"Ready", "Failed"}
          /\ UNCHANGED holding

(* The SUCCESS that follows a FAILURE once communication is restored.      *)
Restore == /\ link = "Failed"
           /\ link' = "Ready"
           /\ UNCHANGED holding

Next == Startup \/ DataIn \/ DataReturn \/ Status \/ Restore

Spec == Init /\ [][Next]_vars
=============================================================================
