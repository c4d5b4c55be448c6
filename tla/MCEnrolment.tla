---------------------------- MODULE MCEnrolment ----------------------------
(* Two persons with a mailbox each. *)
EXTENDS Enrolment, TLC

CONSTANTS alice, bob

MCReader == [m \in Mailboxes |-> IF m = "alice@" THEN alice ELSE bob]

Member(mail, sid, via, p) ==
    [mail |-> mail, sid |-> sid, via |-> via, pws |-> <<p>>,
     provenBy |-> IF via = "email" THEN p ELSE None]

Start(verification, captcha, first, second, pages, members, n, t) ==
    [verification |-> verification, captcha |-> captcha,
     start |-> alice :> first @@ bob :> second,
     me |-> alice :> (IF first = "verify" THEN 1 ELSE None) @@ bob :> None,
     pages |-> pages, accounts |-> members, clicks |-> n, ticks |-> t]

\* Registrations with codes, of two and of one that goes on asking, and
\* without; the captcha; an old password against a reset; two resets that wait
\* for one code while a new one is sent; an account with a mistyped address
\* that is to be verified.
MCScenarios ==
    {Start(TRUE, FALSE, "register", "register", {}, <<>>, 3, 1),
     Start(TRUE, FALSE, "register", "home", {}, <<>>, 4, 2),
     Start(FALSE, FALSE, "register", "register", {}, <<>>, 3, 1),
     Start(TRUE, TRUE, "register", "register", {"reset"}, <<>>, 2, 1),
     Start(FALSE, FALSE, "login", "reset", {"login"}, <<Member("bob@", "s1", "none", alice)>>, 5, 1),
     Start(FALSE, FALSE, "reset", "reset", {}, <<Member("alice@", "s1", "email", alice)>>, 5, 1),
     Start(FALSE, FALSE, "verify", "reset", {}, <<Member("bob@", "s1", "none", alice)>>, 4, 1)}
=============================================================================
