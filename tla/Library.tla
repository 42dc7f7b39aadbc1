------------------------------ MODULE Library -------------------------------
(***************************************************************************)
(* The two libraries of the kernel, StdMem and Format.  They share no      *)
(* state: a behaviour is one of calls to the one or to the other.          *)
(***************************************************************************)
EXTENDS StdMem, Format

VARIABLE unit

library_vars == <<unit, mem_vars, format_vars>>

LibraryInit == unit \in {"stdmem", "format"} /\ MemInit /\ FormatInit

LibraryNext ==
  /\ \/ unit = "stdmem" /\ MemNext /\ UNCHANGED format_vars
     \/ unit = "format" /\ FormatNext /\ UNCHANGED mem_vars
  /\ UNCHANGED unit

(* A call that was made runs; nothing says that one is ever made.          *)
LibraryFairSpec ==
  /\ LibraryInit /\ [][LibraryNext]_library_vars
  /\ WF_library_vars(MemStep /\ UNCHANGED <<unit, format_vars>>)
  /\ WF_library_vars(FormatStep /\ UNCHANGED <<unit, mem_vars>>)

-----------------------------------------------------------------------------
(* Properties.                                                             *)

(* Every call returns: no loop of stdmem.c or of the conversions of        *)
(* console.c runs for ever.                                                *)
CallsReturn ==
  /\ (fn # "none" /\ ~returned) ~> returned
  /\ stage = "scan" ~> stage = "returned"
=============================================================================
