------------------------------ MODULE JobSlots ------------------------------
(***************************************************************************)
(* The contract of the job slots of the Vulkan library                     *)
(* (jcm_set_job_slot, src/src/pearl_amd/vk/jackpot_coopmat_vk.cpp): a slot *)
(* holds the GPU buffers of one round; it is built by one thread and read  *)
(* by search tiles of another, it is never rebuilt while a tile reads it,  *)
(* and a tile only reads a slot that is completely built.                  *)
(***************************************************************************)
CONSTANTS
  JobSlot,      \* the double-buffered job slots
  SearchSlot    \* the ping-pong search slots, one tile in flight in each

VARIABLES
  content,      \* "empty", "building" or "ready", per job slot
  readers       \* the search slots whose tile is reading, per job slot

slotVars == <<content, readers>>

SlotsInit ==
  /\ content = [j \in JobSlot |-> "empty"]
  /\ readers = [j \in JobSlot |-> {}]

BeginBuild(j) ==
  /\ readers[j] = {}
  /\ content' = [content EXCEPT ![j] = "building"]
  /\ UNCHANGED readers

EndBuild(j) ==
  /\ content[j] = "building"
  /\ content' = [content EXCEPT ![j] = "ready"]
  /\ UNCHANGED readers

BeginRead(j, s) ==
  /\ content[j] = "ready"
  /\ \A i \in JobSlot : s \notin readers[i]
  /\ readers' = [readers EXCEPT ![j] = @ \cup {s}]
  /\ UNCHANGED content

EndRead(j, s) ==
  /\ s \in readers[j]
  /\ readers' = [readers EXCEPT ![j] = @ \ {s}]
  /\ UNCHANGED content

SlotsNext ==
  \E j \in JobSlot :
    \/ BeginBuild(j)
    \/ EndBuild(j)
    \/ \E s \in SearchSlot : BeginRead(j, s) \/ EndRead(j, s)

SlotsSpec == SlotsInit /\ [][SlotsNext]_slotVars
=============================================================================
