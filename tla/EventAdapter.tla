---------------------------- MODULE EventAdapter ----------------------------
(***************************************************************************)
(* tools/frida-runtime-aided-adapter.c: what a hook observed, translated   *)
(* into an input of the stability recorder, or refused.  Times are in      *)
(* microseconds.  Identifiers are carried through and left out.            *)
(***************************************************************************)
EXTENDS Q16

KindOf ==
  [READ |-> "NET_READ", RECV |-> "NET_READ",
   WRITE |-> "NET_WRITE", SEND |-> "NET_WRITE", CONNECT |-> "NET_WRITE",
   IPC_READ |-> "IPC_READ", IPC_WRITE |-> "IPC_WRITE",
   GC_BEGIN |-> "GC_BEGIN", GC_END |-> "GC_END",
   ALLOC_PRESSURE |-> "ALLOC_PRESSURE", DLOPEN |-> "DYNAMIC_LOAD",
   WEB_ENTER |-> "WEB_ENTER", WEB_EXIT |-> "WEB_EXIT"]

(* The flag that an operation implies, whatever the hook reported.         *)
MarkedBy ==
  [IPC_BOUNDARY |-> {"IPC_READ", "IPC_WRITE"},
   GC_NEARBY    |-> {"GC_BEGIN", "GC_END", "ALLOC_PRESSURE"},
   DYNAMIC_LOAD |-> {"DLOPEN"},
   WEB_BOUNDARY |-> {"WEB_ENTER", "WEB_EXIT"}]

NeedsDescriptor ==
  {"READ", "WRITE", "SEND", "RECV", "CONNECT", "IPC_READ", "IPC_WRITE"}

LatencyMax == 4294967  \* UINT32_MAX nanoseconds

Capped(value, limit) == IF value > limit THEN limit ELSE value

Translatable(event) ==
  /\ event.time # 0
  /\ event.operation \in NeedsDescriptor => event.descriptor >= 0
  /\ event.operation \in DOMAIN KindOf

Translated(event) ==
  [time     |-> event.time,
   kind     |-> KindOf[event.operation],
   latency  |-> Capped(event.latency, LatencyMax),
   flags    |-> event.flags \cup
                  {f \in DOMAIN MarkedBy : event.operation \in MarkedBy[f]},
   pressure |-> Capped(event.pressure, One)]
=============================================================================
