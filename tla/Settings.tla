-------------------------------- MODULE Settings --------------------------------
(***************************************************************************)
(* The configuration of a compositor (the WstCompositorSet* calls and the  *)
(* checks of WstCompositorStart in westeros-compositor.cpp).  Names are    *)
(* given or not; values that nothing here depends on are left out.         *)
(*                                                                         *)
(* The calls come from one thread.  Those made while the compositor runs   *)
(* are refused and change nothing, except that the setters of listeners    *)
(* then return without unlocking the mutex.                                *)
(***************************************************************************)

CONSTANT Platforms
\* canRepeat: the EGL of the platform can repeat; display: WAYLAND_DISPLAY is set.
ASSUME PlatformAssumption == Platforms \subseteq [canRepeat : BOOLEAN, display : BOOLEAN]

VARIABLES
  running,            \* ctx->running
  isNested, isRepeater, isEmbedded,
  rendererModule,     \* a name is stored
  nestedDisplayName,  \* a name is stored
  listeners,          \* nested listeners are set: output, keyboard and pointer
  keymap,             \* wstInitializeKeymap has run and wstTerminateKeymap has not
  mutex,              \* ctx->mutex: "free", held by "stop", or "leaked"
  platform            \* one of Platforms

settingVars == <<isNested, isRepeater, isEmbedded, rendererModule, nestedDisplayName,
                 listeners, keymap, platform>>

Modes == <<isNested, isRepeater, isEmbedded>>
Names == <<rendererModule, nestedDisplayName>>

--------------------------------------------------------------------------------
Settable == ~running /\ mutex = "free" /\ UNCHANGED <<running, mutex, keymap, platform>>

SetRendererModule ==
  /\ Settable
  /\ rendererModule' = TRUE
  /\ UNCHANGED <<Modes, nestedDisplayName, listeners>>

SetIsNested(nested) ==
  /\ Settable
  /\ isNested' = nested
  /\ UNCHANGED <<isRepeater, isEmbedded, Names, listeners>>

\* Where the platform cannot repeat, the request becomes one for nested composition
\* with the gl renderer.
SetIsRepeater(repeater) ==
  /\ Settable
  /\ isRepeater' = (repeater /\ platform.canRepeat)
  /\ isNested' = (isNested \/ repeater)
  /\ rendererModule' = (rendererModule \/ (repeater /\ ~platform.canRepeat))
  /\ UNCHANGED <<isEmbedded, nestedDisplayName, listeners>>

SetIsEmbedded(embedded) ==
  /\ Settable
  /\ isEmbedded' = embedded
  /\ UNCHANGED <<isNested, isRepeater, Names, listeners>>

SetNestedDisplayName(given) ==
  /\ Settable
  /\ nestedDisplayName' = given
  /\ UNCHANGED <<Modes, rendererModule, listeners>>

\* The setters of the three listeners, called together.
SetNestedListeners ==
  /\ mutex = "free"
  /\ IF running THEN mutex' = "leaked" /\ UNCHANGED listeners
     ELSE isNested /\ listeners' = TRUE /\ UNCHANGED mutex
  /\ UNCHANGED <<running, Modes, Names, keymap, platform>>

\* The checks of WstCompositorStart, passed: it goes on to create the thread.
StartChecked ==
  /\ ~running /\ mutex = "free"
  /\ rendererModule' = (rendererModule \/ isEmbedded)
  /\ rendererModule' \/ isRepeater
  /\ nestedDisplayName' = (nestedDisplayName \/ (isNested /\ platform.display))
  /\ isNested => nestedDisplayName'
  /\ keymap' = (keymap \/ ~isNested)
  /\ UNCHANGED <<running, Modes, listeners, mutex, platform>>

\* A Start that is refused may have chosen a renderer on its way.
StartRefused ==
  /\ ~running /\ mutex = "free"
  /\ rendererModule' = (rendererModule \/ isEmbedded)
  /\ \/ ~rendererModule' /\ ~isRepeater
     \/ isNested /\ ~nestedDisplayName /\ ~platform.display
  /\ UNCHANGED <<running, Modes, nestedDisplayName, listeners, keymap, mutex, platform>>

\* The first part of WstCompositorStop.
StopSettings ==
  /\ running /\ mutex = "free"
  /\ running' = FALSE
  /\ listeners' = FALSE
  /\ UNCHANGED <<Modes, Names, keymap, mutex, platform>>

\* Its last part.
StopDone ==
  /\ keymap' = (keymap /\ isNested)
  /\ mutex' = "free"
  /\ UNCHANGED <<running, Modes, Names, listeners, platform>>

\* WstCompositorCreate
SettingsInit ==
  /\ running = FALSE
  /\ isNested = FALSE /\ isRepeater = FALSE /\ isEmbedded = FALSE
  /\ rendererModule = FALSE /\ nestedDisplayName = FALSE
  /\ listeners = FALSE /\ keymap = FALSE
  /\ mutex = "free"
  /\ platform \in Platforms

\* After the calls that make it a nested compositor with a renderer.
NestedConfigured ==
  /\ running = FALSE
  /\ isNested = TRUE /\ isRepeater = FALSE /\ isEmbedded = FALSE
  /\ rendererModule = TRUE /\ nestedDisplayName = TRUE
  /\ listeners = FALSE /\ keymap = FALSE
  /\ mutex = "free"
  /\ platform \in Platforms

SettingsTypeOK ==
  /\ {running, isNested, isRepeater, isEmbedded, rendererModule, nestedDisplayName,
      listeners, keymap} \subseteq BOOLEAN
  /\ mutex \in {"free", "stop", "leaked"}
  /\ platform \in Platforms
================================================================================
