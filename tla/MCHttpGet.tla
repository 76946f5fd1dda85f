------------------------------ MODULE MCHttpGet ------------------------------
(* Answers: complete, without Content-Length, not found, headers that do not *)
(* fit the buffer, and a body longer than its Content-Length.                *)
EXTENDS HttpGet
Answer(ok, hdr, len, body) == [ok |-> ok, hdr |-> hdr, len |-> len, body |-> body]
Answers == {Answer(TRUE, 2, 2, 2), Answer(TRUE, 2, 0, 2), Answer(FALSE, 2, 1, 1),
            Answer(TRUE, 3, 1, 1), Answer(TRUE, 2, 1, 2)}
TwoAnswers == {Answer(TRUE, 2, 1, 1), Answer(TRUE, 2, 0, 1)}
=============================================================================
