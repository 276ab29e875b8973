----------------------------- MODULE AresBridge -----------------------------
(***************************************************************************)
(* The entry points of the Ares bridge (ares_core_glue.cpp), each under    *)
(* g_state_mutex and so one step.  They are actions that take the status   *)
(* they return; the callers are in the modules that extend this one.  The  *)
(* emulator itself is external: `ares' says how far it has been brought    *)
(* up, and `frames' counts those it has run since.                         *)
(***************************************************************************)
EXTENDS Naturals, Sequences

CONSTANTS
  FrameCap        (* the most frames one step_frame command may ask for     *)

ASSUME FrameCapAssumption == FrameCap \in Nat \ {0}

VARIABLES
  initialized,    (* g_state.initialized: the ROM image has been read       *)
  system_loaded,  (* g_state.system_loaded                                  *)
  ares,           (* the emulator: "empty", "loaded" or "powered"           *)
  frames,         (* frames run since power-on                              *)
  portMissed,     (* history: a reset did not find the cartridge port       *)
  loadedTwice     (* history: the emulator was loaded without an unload     *)

bridgeVars == <<initialized, system_loaded, ares, frames, portMissed, loadedTwice>>

Statuses == {"OK", "NOT_INITIALIZED", "ALREADY_INITIALIZED", "ROM_LOAD_FAILED",
             "INTERNAL_ERROR"}

BridgeInit ==
  /\ initialized = FALSE /\ system_loaded = FALSE
  /\ ares = "empty" /\ frames = 0
  /\ portMissed = FALSE /\ loadedTwice = FALSE

(* The file cannot be opened or read, is empty or no ROM image; or it is. *)
ares_init(status) ==
  \/ /\ initialized /\ status = "ALREADY_INITIALIZED"
     /\ UNCHANGED bridgeVars
  \/ /\ ~initialized /\ status = "ROM_LOAD_FAILED"
     /\ UNCHANGED bridgeVars
  \/ /\ ~initialized /\ status = "OK"
     /\ initialized' = TRUE
     /\ UNCHANGED <<system_loaded, ares, frames, portMissed, loadedTwice>>

-----------------------------------------------------------------------------
(* Faulty variant: the reset does not unload what is there. *)
FaultyUnloaded == ares

(* What is in the emulator when ares_reset calls load(). *)
Unloaded == IF system_loaded THEN "empty" ELSE ares

LoadRefused ==
  /\ ares' = Unloaded
  /\ system_loaded' = FALSE
  /\ UNCHANGED <<portMissed, loadedTwice>>

PortMissing ==
  /\ ares' = "loaded"
  /\ system_loaded' = FALSE
  /\ portMissed' = TRUE
  /\ loadedTwice' = (loadedTwice \/ Unloaded # "empty")

PoweredOn ==
  /\ ares' = "powered"
  /\ system_loaded' = TRUE
  /\ loadedTwice' = (loadedTwice \/ Unloaded # "empty")
  /\ UNCHANGED portMissed

ares_reset(status) ==
  \/ /\ ~initialized /\ status = "NOT_INITIALIZED"
     /\ UNCHANGED bridgeVars
  \/ /\ initialized
     /\ \/ status = "INTERNAL_ERROR" /\ (LoadRefused \/ PortMissing)
        \/ status = "OK" /\ PoweredOn
     /\ frames' = 0
     /\ UNCHANGED initialized

(* Faulty variant: the failed step is counted too. *)
Faulty_step_frames(n, done, status) ==
  \/ /\ ~(initialized /\ system_loaded)
     /\ status = "NOT_INITIALIZED" /\ done = 1
     /\ UNCHANGED bridgeVars
  \/ /\ initialized /\ system_loaded
     /\ status = "OK" /\ done = n
     /\ frames' = frames + n
     /\ UNCHANGED <<initialized, system_loaded, ares, portMissed, loadedTwice>>

(* n calls of ares_step_frame that stop at the first error: `done' frames. *)
ares_step_frames(n, done, status) ==
  \/ /\ ~(initialized /\ system_loaded)
     /\ status = "NOT_INITIALIZED" /\ done = 0
     /\ UNCHANGED bridgeVars
  \/ /\ initialized /\ system_loaded
     /\ status = "OK" /\ done = n
     /\ frames' = frames + n
     /\ UNCHANGED <<initialized, system_loaded, ares, portMissed, loadedTwice>>

(* ares_read_pc, _hi_lo, _cpu_register, _cp0_register, _fpr, _fpu_control and
   _memory with arguments in range. *)
ares_read(status) ==
  /\ status = IF system_loaded THEN "OK" ELSE "NOT_INITIALIZED"
  /\ UNCHANGED bridgeVars

-----------------------------------------------------------------------------
(* Commands reach the emulator only when it is powered on, and it is known *)
(* to be powered on whenever it is, however resets fail in between.        *)
LoadedIsPowered == system_loaded <=> ares = "powered"

(* The emulator is loaded again only after it was unloaded (ares_reset's   *)
(* comment), as long as no reset failed between load() and power().        *)
LoadedOnce == loadedTwice => portMissed
=============================================================================
