---------------------------- MODULE TokenPicker -----------------------------
(***************************************************************************)
(* The token search of the studio page, which only the tier PRIME has: what *)
(* is typed is searched for after a pause, and the answers fill a list.     *)
(* Composed with the account the tier depends on.                          *)
(***************************************************************************)
EXTENDS StudioAccount

CONSTANTS
    Queries,    \* texts of two letters and more
    Short       \* those with less, which are not searched for

ASSUME QueryAssumption ==
    Queries \cap Short = {} /\ "" \in Short /\ None \notin Queries \cup Short

VARIABLES
    tokenSearch,    \* the text in the field
    searchTimer,    \* the text the running timer will search for, or None
    searches,       \* the texts that are being searched for
    searchResults,  \* the text the list is for, or None when it is empty
    searchPending,
    typedOver       \* history: the text changed while a search was under way

pickerVars == <<tokenSearch, searchTimer, searches, searchResults,
                searchPending, typedOver>>
vars == <<accountVars, pickerVars>>

Texts == Queries \cup Short

Init ==
    /\ AccountInit
    /\ tokenSearch = "" /\ searchTimer = None
    /\ searches = {} /\ searchResults = None
    /\ searchPending = FALSE /\ typedOver = FALSE

\* Every change of the text starts the pause again.
Type(q) ==
    /\ tier = "prime"
    /\ q # tokenSearch
    /\ tokenSearch' = q
    /\ searchTimer' = q
    /\ typedOver' = (typedOver \/ searches # {})
    /\ UNCHANGED <<searches, searchResults, searchPending>>

\* Slip: a text that is too short leaves the list as it was.
SearchTokenShortKept ==
    /\ searchTimer # None
    /\ searchTimer' = None
    /\ IF searchTimer \in Short
       THEN UNCHANGED <<searches, searchResults, searchPending>>
       ELSE /\ searches' = searches \cup {searchTimer} /\ searchPending' = TRUE
            /\ UNCHANGED searchResults
    /\ UNCHANGED <<tokenSearch, typedOver>>

\* Slip: short texts are searched for, too.
SearchTokenAlways ==
    /\ searchTimer # None
    /\ searchTimer' = None
    /\ searches' = searches \cup {searchTimer} /\ searchPending' = TRUE
    /\ UNCHANGED <<tokenSearch, searchResults, typedOver>>

\* The pause is over.
SearchToken ==
    /\ searchTimer # None
    /\ searchTimer' = None
    /\ IF searchTimer \in Short
       THEN searchResults' = None /\ UNCHANGED <<searches, searchPending>>
       ELSE /\ searches' = searches \cup {searchTimer} /\ searchPending' = TRUE
            /\ UNCHANGED searchResults
    /\ UNCHANGED <<tokenSearch, typedOver>>

\* An answer ends one search; another for the same text may go on.
SearchEnds(q) == q \in searches /\ searches' \in {searches, searches \ {q}}

\* Slip: an answer without a token does not end the wait.
SearchAnsweredPending(q) ==
    /\ SearchEnds(q)
    /\ \/ searchResults' = q /\ searchPending' = FALSE
       \/ searchResults' = None /\ UNCHANGED searchPending
    /\ UNCHANGED <<tokenSearch, searchTimer, typedOver>>

\* Tokens are found, or none, or the search fails: the list is what the last
\* answer brought, and the first answer ends the wait.
SearchAnswered(q) ==
    /\ SearchEnds(q)
    /\ searchResults' \in {q, None}
    /\ searchPending' = FALSE
    /\ UNCHANGED <<tokenSearch, searchTimer, typedOver>>

\* A token of the list is taken.  A pause that is running goes on.
PickSearchResult ==
    /\ tier = "prime" /\ searchResults # None /\ tokenSearch # ""
    /\ tokenSearch' = "" /\ searchResults' = None
    /\ typedOver' = (typedOver \/ searches # {})
    /\ UNCHANGED <<searchTimer, searches, searchPending>>

PickerNext ==
    \/ \E q \in Texts : Type(q)
    \/ SearchToken
    \/ \E q \in Queries : SearchAnswered(q)
    \/ PickSearchResult

Next ==
    \/ AccountNext /\ UNCHANGED pickerVars
    \/ PickerNext /\ UNCHANGED accountVars

Spec == Init /\ [][Next]_vars

-----------------------------------------------------------------------------
(* Properties.                                                             *)

TypeOK ==
    /\ AccountTypeOK
    /\ tokenSearch \in Texts /\ searchTimer \in Texts \cup {None}
    /\ searches \subseteq Queries
    /\ searchResults \in Queries \cup {None}
    /\ searchPending \in BOOLEAN /\ typedOver \in BOOLEAN

\* "Searching" is not left on: it is shown only while a search is under way,
\* however many overlap and whichever ends first, whatever it found.  The other
\* direction does not hold: the first answer ends the wait of all of them.
PendingMeansSearching == searchPending => searches # {}

\* When the pause and the searches are over, the list is for the text in the
\* field, unless the text was ever changed while a search was under way.
ResultsAreForTheText ==
    ~typedOver /\ searchTimer = None /\ searches = {} /\ tokenSearch # ""
    => searchResults \in {None, tokenSearch}
=============================================================================
