------------------------------ MODULE MCSending ------------------------------
(***************************************************************************)
(* Instance for TLC of the two ends of sending: the application's requests *)
(* and their confirmations (SmartHomeSend), and the low level of the MAC,  *)
(* where frames meet the radio (MacRadio).  They share no variable, as AF, *)
(* NWK and the upper level of the MAC lie between them: part says which of *)
(* them a behaviour is about, and the other stays as it is at first.       *)
(***************************************************************************)
EXTENDS SmartHomeSend, MacRadio

VARIABLE part

sendingVars == <<part, vars, macVars>>

\* An ACK; frames that ask for one or not, one of them damaged, and one whose
\* security header is refused.
SomeFrames ==
  {<<"ack">>, <<"plain", "body", "good">>, <<"request", "body", "good">>,
   <<"request", "body", "bad">>, <<"request", "odd", "good">>}

SendingInit == part \in {"application", "radio"} /\ Init /\ MacInit

\* Steps of one part.
InApplication(A) == part = "application" /\ A /\ UNCHANGED <<part, macVars>>
InRadio(A) == part = "radio" /\ A /\ UNCHANGED <<part, vars>>

\* SmartHomeSend states no fairness; that of the radio is MacFairSpec's.
SendingSpec ==
  /\ SendingInit
  /\ [][InApplication(Next) \/ InRadio(MacNext)]_sendingVars
  /\ WF_sendingVars(InRadio(GoesOn))
  /\ WF_sendingVars(InRadio(RadioGoesOn))
  /\ part = "radio" => InterruptsServed

=============================================================================
