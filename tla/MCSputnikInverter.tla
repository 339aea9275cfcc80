------------------------- MODULE MCSputnikInverter -------------------------
(* One query of each strategy; the "Once" one has two tokens, as the       *)
(* software version has, the three others one; a telegram holds two.       *)
EXTENDS SputnikInverter, TLC

CONSTANTS SWV, PAC, UL2, KYR, bdn, swv, pac, ul2, kyr

MCOrder == <<SWV, PAC, UL2, KYR>>
MCStrategy == SWV :> "Once" @@ PAC :> "Always" @@ UL2 :> "IfSupported" @@ KYR :> "Timed"
MCToken == SWV :> {bdn, swv} @@ PAC :> {pac} @@ UL2 :> {ul2} @@ KYR :> {kyr}
MCNeeded == SWV :> {swv} @@ PAC :> {pac} @@ UL2 :> {ul2} @@ KYR :> {kyr}
MCAnswerLen == SWV :> 2 @@ PAC :> 1 @@ UL2 :> 1 @@ KYR :> 1
=============================================================================
