------------------------------- MODULE Image --------------------------------
(***************************************************************************)
(* dbgCmd_img of sim.c: the debugger saves the emulator's state to a file  *)
(* and loads it later.  Of what Machine models the file holds the CPU and  *)
(* memory; mmu.c and cmb.c have no part in it.  The field mmu is not in    *)
(* the file: it remembers what the MMU held when the file was written.     *)
(***************************************************************************)
EXTENDS Machine

VARIABLE image

imageVars == <<vars, image>>

NoImage == [saved |-> FALSE]

(* The debugger's prompt comes between two instructions.                   *)
Save ==
  /\ image' = [saved |-> TRUE, userMode |-> userMode, trap |-> trap,
               rom |-> romMapped, used |-> ramUsed, mmu |-> mmuVars]
  /\ UNCHANGED vars

Load ==
  /\ image.saved
  /\ userMode' = image.userMode /\ trap' = image.trap
  /\ romMapped' = image.rom /\ ramUsed' = image.used
  /\ bus' = {}
  /\ UNCHANGED <<mmuVars, mmuStat, errorFlags, leftOver, image>>

ImageInit == Init /\ image = NoImage
ImageNext == (Next /\ UNCHANGED image) \/ Save \/ Load
ImageSpec == ImageInit /\ [][ImageNext]_imageVars

-----------------------------------------------------------------------------
(* "save/load current state to/from file": a user program that runs on     *)
(* from a loaded image finds the segments it had (dbgCmd_img).             *)
LoadRestores ==
  [][Load /\ userMode' => <<mmuBase, mmuLimit, mmuLoaded>>' = image.mmu]_imageVars
=============================================================================
