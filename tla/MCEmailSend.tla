----------------------------- MODULE MCEmailSend -----------------------------
(* EmailSend on a small instance: messages that differ from a good one in at *)
(* most one field, keyed or not.                                            *)
EXTENDS EmailSend

SMTP(tls, auth, allow) ==
    [sender |-> "smtp", tls |-> tls, auth |-> auth,
     allowInsecureAuth |-> allow, engine |-> TRUE, defaultFrom |-> "none"]

Resend(engine, from) ==
    [sender |-> "resend", tls |-> "implicit", auth |-> FALSE,
     allowInsecureAuth |-> FALSE, engine |-> engine, defaultFrom |-> from]

\* The three modes, the default and one misspelt.
SmallConfigs == {SMTP("starttls", FALSE, FALSE), SMTP("implicit", FALSE, FALSE),
                 SMTP("", TRUE, FALSE), SMTP("STARTTLS", TRUE, FALSE),
                 SMTP("insecure_no_tls", TRUE, FALSE),
                 SMTP("insecure_no_tls", TRUE, TRUE),
                 Resend(TRUE, "good"), Resend(FALSE, "none")}

Good(modes, keyed) == [to |-> "good", from |-> "good", replyTo |-> "none",
                       modes |-> modes, inline |-> "fine", fits |-> TRUE,
                       keyed |-> keyed]

Literal == Good({"literal"}, TRUE)
Inline  == Good({"inline"}, TRUE)
Named   == Good({"name"}, TRUE)

SmallEmails ==
    {Literal, Named, Good({"literal"}, FALSE),
     Good({}, TRUE), Good({"name", "literal"}, TRUE),
     [Literal EXCEPT !.to = "none"], [Literal EXCEPT !.to = "bad"],
     [Literal EXCEPT !.from = "none"], [Literal EXCEPT !.from = "bad"],
     [Literal EXCEPT !.replyTo = "bad"], [Inline EXCEPT !.inline = "oversize"],
     [Inline EXCEPT !.fits = FALSE]}

\* Of five bits: the largest duration is 15; 9 * 2 wraps to -14, 9 * 4 to 4, and a
\* ceiling of 15 makes 8 * 2 panic.
SmallBackoffs == {<<0, 3>>, <<2, 0>>, <<9, 5>>, <<8, 15>>}

ASSUME SaneBackoffs == SaneCeilings
=============================================================================
