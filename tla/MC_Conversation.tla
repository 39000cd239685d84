--------------------------- MODULE MC_Conversation ---------------------------
(* Small instances of Conversation for TLC.                                 *)
EXTENDS Conversation

in(kind, n) == [kind |-> kind, n |-> n]

Numbers == {in("number", n) : n \in 1..6}
MC_SmsInputs == Numbers \cup {NoInput, in("date", 0), in("date", 2), in("text", 0),
                              in("change", 0), in("yes", 0), in("no", 0)}
MC_VoiceInputs == Numbers \cup {NoInput, in("number", 9), in("recording", 0)}

business(offices, services, providers, office, service, full) ==
    [offices |-> offices, services |-> services, providers |-> providers,
     office |-> office, service |-> service, full_control |-> full]

(* One business that offers a default office, one of each other mode, and   *)
(* one with nothing to choose.                                              *)
MC_Default == {business(2, 1, 2, "ask_and_assume", "assume", TRUE)}
MC_Mixed == {business(1, 1, 1, "assume", "ask", FALSE),
             business(2, 2, 1, "ask", "assume", TRUE),
             business(1, 2, 2, "assume", "ask_and_assume", FALSE)}
(* A choice of service may go through offices and providers without a stop, *)
(* in the deepest chains of calls and with the most resets of all.          *)
MC_Skipped == {business(1, 2, 1, "ask", "ask", FALSE)}
MC_Businesses == MC_Default \cup MC_Mixed \cup MC_Skipped
MC_FreeSets == {{}, {1, 2}}

MC_One == {business(1, 1, 1, "assume", "assume", FALSE)}
MC_FewSms == {in("number", 1), in("number", 2), in("number", 3), in("date", 0)}
MC_FewVoice == {NoInput, in("number", 1), in("number", 2), in("recording", 0)}
===============================================================================
