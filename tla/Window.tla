------------------------------- MODULE Window -------------------------------
(***************************************************************************)
(* The window of the desktop application (ZeroCopies/src/main.ts and its   *)
(* store, state.ts) over the commands it invokes (ChatCommands.tla).       *)
(*                                                                         *)
(* The window is one thread, and every handler runs to its next await: a   *)
(* click, an answer and a timer are one step each.  Between them anything  *)
(* else may happen.  One flag, isLoading, locks the input for loads and    *)
(* messages alike, and the load button looks at no flag.                   *)
(***************************************************************************)
EXTENDS ChatCommands

VARIABLES
    ui,             \* where the handler that uses the command c waits
    isLoading,
    appOnline,
    modelName,
    screen,         \* the active screen: "empty", "chat" or "other"
    overlapped      \* history variable: two loads were once under way

store == <<isLoading, appOnline, modelName>>
wvars == <<cvars, ui, store, screen, overlapped>>

\* Where a handler can wait: for the file dialog, for a command, for the
\* timer after a load that succeeded (300 ms) or failed (2 s).
Waits == {"nothing", "dialog", "load", "loaded", "load failed", "chat"}

WInit ==
    /\ CInit
    /\ ui = [c \in Call |-> "nothing"]
    /\ isLoading = FALSE /\ appOnline = FALSE /\ modelName = NoModel
    /\ screen = "empty"
    /\ overlapped = FALSE

Wait(c, what) == ui' = [ui EXCEPT ![c] = what]

Loads == {c \in Call : ui[c] \in {"load", "loaded"}}

-----------------------------------------------------------------------------
(* pickAndLoadModel.  The load button is on the start screen only; the     *)
(* screen with the other one is never shown.                               *)

ClickLoad(c) ==
    /\ screen = "empty"
    /\ ui[c] = "nothing"
    /\ Wait(c, "dialog")
    /\ UNCHANGED <<cvars, store, screen, overlapped>>

DialogCancelled(c) ==
    /\ ui[c] = "dialog"
    /\ Wait(c, "nothing")
    /\ UNCHANGED <<cvars, store, screen, overlapped>>

FilePicked(c, m) ==
    /\ ui[c] = "dialog"
    /\ isLoading' = TRUE
    /\ AskLoad(c, m)
    /\ Wait(c, "load")
    /\ overlapped' = (overlapped \/ Loads # {})
    /\ UNCHANGED <<appOnline, modelName, screen>>

LoadSucceeded(c) ==
    /\ ui[c] = "load"
    /\ call[c] = "ok"
    /\ Collect(c)
    /\ Wait(c, "loaded")
    /\ UNCHANGED <<store, screen, overlapped>>

\* A plausible bug: a name once shown is kept.
FirstName(c) == IF modelName = NoModel THEN arg[c] ELSE modelName

ShownName(c) == arg[c]

LoadShown(c) ==
    /\ ui[c] = "loaded"
    /\ appOnline' = TRUE
    /\ modelName' = ShownName(c)
    /\ isLoading' = FALSE
    /\ screen' = "chat"
    /\ Wait(c, "nothing")
    /\ UNCHANGED <<cvars, overlapped>>

\* A plausible bug: the flag is cleared only where a load succeeds.
LoadFailedStillLoading(c) ==
    /\ ui[c] = "load"
    /\ call[c] = "failed"
    /\ Collect(c)
    /\ Wait(c, "load failed")
    /\ UNCHANGED <<store, screen, overlapped>>

LoadFailed(c) ==
    /\ ui[c] = "load"
    /\ call[c] = "failed"
    /\ Collect(c)
    /\ isLoading' = FALSE
    /\ Wait(c, "load failed")
    /\ UNCHANGED <<appOnline, modelName, screen, overlapped>>

BackToEmptyScreen(c) ==
    /\ ui[c] = "load failed"
    /\ screen' = "empty"
    /\ Wait(c, "nothing")
    /\ UNCHANGED <<cvars, store, overlapped>>

\* The terminal and the settings screens have no way back of their own.
ShowOtherScreen ==
    /\ screen' = "other"
    /\ UNCHANGED <<cvars, ui, store, overlapped>>

-----------------------------------------------------------------------------
(* sendMessage, on the chat screen.  The stop button aborts a controller   *)
(* whose signal nothing listens to: it changes nothing that is modelled.   *)

\* The text is trimmed and not empty.
Send(c, n) ==
    /\ screen = "chat"
    /\ ~isLoading
    /\ ui[c] = "nothing"
    /\ n > 0
    /\ isLoading' = TRUE
    /\ AskChat(c, n)
    /\ Wait(c, "chat")
    /\ UNCHANGED <<appOnline, modelName, screen, overlapped>>

\* The answer goes to the thread.
Replied(c) ==
    /\ ui[c] = "chat"
    /\ call[c] = "ok"
    /\ Collect(c)
    /\ isLoading' = FALSE
    /\ Wait(c, "nothing")
    /\ UNCHANGED <<appOnline, modelName, screen, overlapped>>

\* An error goes to the thread, and the application is shown as offline.  (No
\* error text contains "cancel" or "abort".)
ReplyFailed(c) ==
    /\ ui[c] = "chat"
    /\ call[c] = "failed"
    /\ Collect(c)
    /\ isLoading' = FALSE
    /\ appOnline' = FALSE
    /\ modelName' = NoModel
    /\ Wait(c, "nothing")
    /\ UNCHANGED <<screen, overlapped>>

-----------------------------------------------------------------------------

Command(c) == Serve(c) /\ UNCHANGED <<ui, store, screen, overlapped>>

Answer(c) ==
    \/ LoadSucceeded(c) \/ LoadShown(c)
    \/ LoadFailed(c) \/ BackToEmptyScreen(c)
    \/ Replied(c) \/ ReplyFailed(c)

User ==
    \/ \E c \in Call :
          \/ ClickLoad(c)
          \/ DialogCancelled(c)
          \/ \E m \in Model : FilePicked(c, m)
          \/ \E n \in PromptLens : Send(c, n)
    \/ ShowOtherScreen

WNext == User \/ \E c \in Call : Command(c) \/ Answer(c)

WSpec == WInit /\ [][WNext]_wvars

\* Commands run on threads, answers and timers are delivered; the user need
\* not do anything.
FairWindow ==
    WSpec /\ \A c \in Call : WF_wvars(Command(c)) /\ WF_wvars(Answer(c))

-----------------------------------------------------------------------------
(* Properties.                                                             *)

\* The types, and that a handler waits for the command it invoked.
WTypeOK ==
    /\ CTypeOK
    /\ ui \in [Call -> Waits]
    /\ modelName \in Model \cup {NoModel}
    /\ screen \in {"empty", "chat", "other"}
    /\ \A c \in Call : call[c] # "idle" <=> ui[c] \in {"load", "chat"}

\* The input is locked only while something is under way that will unlock it:
\* no order of answers leaves the user with a dead window.
LockedForAReason ==
    isLoading => \E c \in Call : ui[c] \in {"load", "loaded", "chat"}

\* The window says online only when there is a model, and the name it shows
\* is that of the model that answers, once no load is under way; loads that
\* overlapped may have been shown in another order than they took place.
ShowsTheModel ==
    appOnline /\ Loads = {} =>
        /\ loaded # NoModel
        /\ overlapped \/ modelName = loaded

\* A locked input is unlocked in the end.
InputComesBack == isLoading ~> ~isLoading

=============================================================================
