------------------------------- MODULE MCSession -------------------------------
(***************************************************************************)
(* Two people.  The first is behind a failed order, chased by a message in *)
(* the evening and by an e-mail at night, and behind an invoice; the       *)
(* second behind an invoice large enough for the desk.                     *)
(***************************************************************************)
EXTENDS Session

Person == [email |-> TRUE, phone |-> TRUE, dnd_registered |-> FALSE,
           opted_out |-> FALSE, consented_channels |-> {"email", "sms"}]

MCPeople == [buyer |-> Person, firm |-> Person]

NoSubject == [customer |-> "buyer", order |-> None, invoice |-> None,
              subscription |-> None]
Owed(amount) == [outstanding |-> amount, disputed |-> FALSE, promise |-> None]

MCSubjects ==
    [order |-> [NoSubject EXCEPT !.order =
        [amount |-> 50000, recovery_attempts |-> 0,
         last_attempt |-> [at |-> 20, code |-> "do_not_honor"]]],
     small |-> [NoSubject EXCEPT !.invoice = Owed(60000)],
     large |-> [NoSubject EXCEPT !.invoice = Owed(2500000), !.customer = "firm"]]

Message(subject, channel, at) ==
    [type |-> "send_dunning", channel |-> channel, at |-> at, subject |-> subject]

\* 20:30, 21:30 and 22:30 in India are 30, 32 and 34 half hours.
MCPlan ==
    {[type |-> "retry_payment", channel |-> None, at |-> 30, subject |-> "order"],
     Message("order", "sms", 30), Message("order", "email", 34),
     Message("small", "sms", 32), Message("large", "sms", 30)}
===============================================================================
