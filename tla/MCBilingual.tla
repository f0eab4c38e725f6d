----------------------------- MODULE MCBilingual -----------------------------
(* The two halves of the bilingual backend, one of them in each behaviour: who
   owns which session, and what one session does with what it hears. *)
EXTENDS LiveTranslation, BilingualSession

VARIABLE part

vars == <<part, translationVars, bilingualVars>>

Init == /\ part \in {"translation", "sessions"}
        /\ TranslationInit /\ BilingualInit
        /\ part = "sessions" => channel = "off"

Next == /\ \/ /\ part = "translation" /\ TranslationNext
              /\ UNCHANGED bilingualVars
           \/ /\ part = "sessions" /\ BilingualNext
              /\ UNCHANGED translationVars
        /\ UNCHANGED part

Spec == /\ Init /\ [][Next]_vars
        /\ BatcherFairness /\ BilingualFairness
===============================================================================
