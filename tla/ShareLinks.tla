----------------------------- MODULE ShareLinks -----------------------------
(***************************************************************************)
(* The share buttons of a finished clip (lib/share.ts): a Discord webhook   *)
(* and a Binance Square key kept in localStorage, a dialogue that asks for  *)
(* them, and the toast they share with the tab store.  Sharing on X and on  *)
(* Telegram only opens a window and has no state.                          *)
(***************************************************************************)
EXTENDS Toasts

CONSTANTS
    Hooks,      \* webhook addresses the user may enter
    NoHook      \* no webhook is stored

ASSUME HookAssumption == NoHook \notin Hooks /\ {"shared", "copied"} \subseteq Messages

VARIABLES
    webhook,    \* mefai_discord_webhook
    squareKey,  \* whether mefai_square_key is set
    modal,      \* the dialogue shown: "none", "discord" or "square"
    posts       \* the webhooks a message is on its way to

shareVars == <<webhook, squareKey, modal, posts>>

ShareInit ==
    /\ webhook \in Hooks \cup {NoHook} /\ squareKey \in BOOLEAN
    /\ modal = "none"
    /\ posts = {}

\* Slip: the dialogue is shown, and the message is posted all the same.
PostAnyway ==
    /\ webhook \notin posts
    /\ posts' = posts \cup {webhook}
    /\ modal' = IF webhook = NoHook THEN "discord" ELSE modal
    /\ UNCHANGED <<webhook, squareKey, toastVars>>

\* Bound of the model: one message at a time to one webhook.
ShareToDiscord ==
    /\ webhook \notin posts
    /\ IF webhook = NoHook
       THEN modal' = "discord" /\ UNCHANGED posts
       ELSE posts' = posts \cup {webhook} /\ UNCHANGED modal
    /\ UNCHANGED <<webhook, squareKey, toastVars>>

DiscordAnswers(h) ==
    /\ h \in posts
    /\ posts' = posts \ {h}
    /\ Say("shared")
    /\ UNCHANGED <<webhook, squareKey, modal>>

\* An error answer, or none: whatever webhook is stored now is removed.
DiscordRefuses(h) ==
    /\ h \in posts
    /\ posts' = posts \ {h}
    /\ webhook' = NoHook
    /\ modal' = "discord"
    /\ UNCHANGED <<squareKey, toastVars>>

ShareToSquare ==
    /\ IF squareKey THEN Say("copied") /\ UNCHANGED modal
                    ELSE modal' = "square" /\ UNCHANGED toastVars
    /\ UNCHANGED <<webhook, squareKey, posts>>

CloseShareModal ==
    /\ modal # "none"
    /\ modal' = "none"
    /\ UNCHANGED <<webhook, squareKey, posts, toastVars>>

\* The dialogue stores what the user enters.
EnterHook(h) ==
    /\ modal = "discord"
    /\ webhook' = h /\ modal' = "none"
    /\ UNCHANGED <<squareKey, posts, toastVars>>
EnterKey ==
    /\ modal = "square"
    /\ squareKey' = TRUE /\ modal' = "none"
    /\ UNCHANGED <<webhook, posts, toastVars>>

ShareNext ==
    \/ ShareToDiscord \/ ShareToSquare \/ CloseShareModal \/ EnterKey
    \/ \E h \in Hooks : DiscordAnswers(h) \/ DiscordRefuses(h) \/ EnterHook(h)

ShareTypeOK ==
    /\ webhook \in Hooks \cup {NoHook} /\ squareKey \in BOOLEAN
    /\ modal \in {"none", "discord", "square"}
    /\ posts \subseteq Hooks
=============================================================================
