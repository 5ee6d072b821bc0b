---------------------------- MODULE HttpRequest ----------------------------
(***************************************************************************)
(* What a request of CarpHttpClientText or CarpHttpClientPost promises:    *)
(* its complete function is called once, and never again.  It may be       *)
(* stopped meanwhile, which by itself completes nothing.                   *)
(***************************************************************************)
EXTENDS Naturals

VARIABLE request

NewRequest == [sent |-> FALSE, stopped |-> FALSE, completions |-> 0]

Sent(r) == [r EXCEPT !.sent = TRUE]

Completed(r) == [r EXCEPT !.completions = @ + 1]

(* Stop of one that is completed does nothing. *)
Stopped(r) == IF r.completions > 0 THEN r ELSE [r EXCEPT !.stopped = TRUE]

Init == request = NewRequest

Send == ~request.sent /\ request.completions = 0 /\ request' = Sent(request)

(* Without being sent, too: the file of an upload cannot be opened.  The   *)
(* callback of the progress may stop a request in the step that ends it.   *)
Complete ==
    /\ request.completions = 0
    /\ request' \in {Completed(request), Completed(Stopped(request))}

Stop == request' = Stopped(request)

Next == Send \/ Complete \/ Stop

Spec == Init /\ [][Next]_request
=============================================================================
