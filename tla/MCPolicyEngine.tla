---------------------------- MODULE MCPolicyEngine ----------------------------
(***************************************************************************)
(* Actions at three moments of one Indian day (10:30, 22:30 and, past      *)
(* midnight, 02:30), in contexts that vary one group of facts at a time:   *)
(* what failed and when, what the subject is and is worth, who the person  *)
(* is and what they were already sent.                                     *)
(***************************************************************************)
EXTENDS PolicyEngine

MCActions ==
    [type : {"retry_payment", "wait"}, channel : {None}, at : {10, 34, 42}]
    \cup [type : {"send_dunning"}, channel : {None, "sms", "email"},
          at : {10, 34, 42}]

Anyone == [email |-> TRUE, phone |-> TRUE, dnd_registered |-> FALSE,
           opted_out |-> FALSE, consented_channels |-> {"email", "sms"}]

Base == [now |-> 34, customer |-> Anyone, order |-> None, invoice |-> None,
         subscription |-> None, contacts |-> <<>>, customer_contacts |-> <<>>,
         diagnosis |-> None, outage_until |-> None]

\* A failed order: what failed, how long ago, what it is worth.
Failed == [amount : {300, 50000, 2500000},
           last_attempt : [at : {-300, 30}, code : Code \cup {None}] \cup {None},
           recovery_attempts : {0, 2}]

PaymentContexts ==
    {[Base EXCEPT !.order = o, !.outage_until = out, !.diagnosis = d] :
        o \in Failed, out \in {None, 20, 60},
        d \in {None, "issuer_outage", "fraud_pressure"}}

Promise == [undecided : BOOLEAN, promised_for : {33, 34}]
InvoiceContexts ==
    {[Base EXCEPT !.invoice = i] : i \in
        [outstanding : {0, 700, 4000, 9000000}, disputed : BOOLEAN,
         promise : Promise \cup {None}]}

MandateContexts ==
    {[Base EXCEPT !.subscription = s] : s \in
        [annual_value : {600000, 2500000}, revoked : BOOLEAN, cancelled : BOOLEAN]}

People == [email : BOOLEAN, phone : BOOLEAN, dnd_registered : BOOLEAN,
           opted_out : BOOLEAN, consented_channels : {{}, {"sms"}, {"email", "sms"}}]

\* Three contacts or six, all inside the fortnight or one of them just out.
History == {<<>>, <<0, 10, 20>>, <<-639, 10, 20>>}
PersonHistory == {<<>>, <<0, 1, 2, 3, 4, 5>>, <<-639, 1, 2, 3, 4, 5>>}

PersonContexts ==
    {[Base EXCEPT !.order = [amount |-> 50000, last_attempt |-> None,
                             recovery_attempts |-> 0],
                  !.customer = p, !.contacts = h, !.customer_contacts = ph] :
        p \in People \cup {None}, h \in History, ph \in PersonHistory}

MCContexts == PaymentContexts \cup InvoiceContexts \cup MandateContexts
              \cup PersonContexts

MCRuleSets == {DEFAULT_RULES, TimingRules}
===============================================================================
