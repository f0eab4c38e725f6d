\* The pipeline remembers a transcript before it looks at the expiry.
CONSTANTS
    Texts <- MCTexts
    WordsOf <- MCWordsOf
    CharsOf <- MCCharsOf
    MaxEntries = 3
    MaxChars = 15
    MaxSpoken = 2
SPECIFICATION Spec
CHECK_DEADLOCK FALSE
INVARIANTS
    ExpiredNotServed
