---------------------- MODULE MCConversationContext ------------------------
(* Utterances of one and of several words; 7 characters fit twice into 15,
   4 three times, 16 not at all. *)
EXTENDS ConversationContext

MCTexts == 1..4
MCWordsOf == <<1, 2, 2, 3>>
MCCharsOf == <<3, 4, 7, 16>>

=============================================================================
