---------------------------- MODULE AudioPlayer ----------------------------
(***************************************************************************)
(* The controller's audio player: one runtime task takes commands from a   *)
(* queue, a reader task per slot decodes a file into the slot's stream     *)
(* buffer, and the mixer task reads the buffers and writes to the I2S      *)
(* output.  Background music has two slots, so that the next piece can be  *)
(* primed silently while the current one still plays; effects have one.    *)
(*                                                                         *)
(* A handler of the runtime task is the sequence of operations in `todo';  *)
(* each operation is one lock section of the code.  A stream buffer holds  *)
(* 0..PREROLL chunks and is primed at PREROLL; a fade lasts until the      *)
(* mixer has processed one more chunk.  Samples, gains, the progress and   *)
(* the bit rate shown in the status are left out.                          *)
(***************************************************************************)
EXTENDS Naturals, Sequences

CONSTANTS Files,        \* subset of {"loop", "short", "missing", "bad"}
          Requests,     \* the commands callers may queue
          QUEUE_LEN,    \* AUDIO_QUEUE_LEN
          PREROLL,      \* chunks that prime a stream
          MAX_PLAYER_COMMANDS \* bound: commands queued in a behaviour

Background == {"A", "B"}
Slots == Background \cup {"E"}
NoFile == "none"

VARIABLES
  queue, sent,      \* s_queue; commands queued so far
  player_todo,      \* operations the runtime task still has to do for its command
  state, active,    \* s_runtime_state, s_active_background_slot
  chan,             \* s_channels: task and done as one value, waiter, path
  stop, paused,     \* the event group
  reader,           \* reader task of a slot: pc, file and chunks left (ctx in use iff pc # none)
  player_notified,  \* the runtime task's notification
  mix,              \* the mixer's state of a slot
  output_state,     \* s_output_state
  tx,               \* the I2S channel: "off", "on", or "gone" when a reset could not set it up again
  status,           \* s_status: playing, paused, path set
  heard,            \* chunks of a slot the mixer took since the slot was stopped, or Uncounted
  background        \* slot of the background the last command left playing, or NoFile

rt == <<queue, sent, player_todo>>
player_vars == <<queue, sent, player_todo, state, active, chan, stop, paused, reader, player_notified,
                 mix, output_state, tx, status, heard, background>>

SilentMix == [on |-> FALSE, audible |-> FALSE, primed |-> FALSE, fading |-> FALSE, muted |-> FALSE, tail |-> FALSE, pcm |-> 0]
Uncounted == 9
NoReader == [pc |-> NoFile, file |-> NoFile, left |-> 0]
NoChan == [task |-> FALSE, done |-> TRUE, waiter |-> FALSE, path |-> NoFile]

PlayerInit ==
  /\ queue = <<>> /\ sent = 0 /\ player_todo = <<>>
  /\ state = "IDLE" /\ active = "A"
  /\ chan = [s \in Slots |-> NoChan]
  /\ stop = [s \in Slots |-> FALSE] /\ paused = FALSE
  /\ reader = [s \in Slots |-> NoReader] /\ player_notified = FALSE
  /\ mix = [s \in Slots |-> SilentMix] /\ output_state = "IDLE" /\ tx = "off"
  /\ status = [playing |-> FALSE, paused |-> FALSE, path |-> FALSE]
  /\ heard = [s \in Slots |-> Uncounted] /\ background = NoFile

---------------------------------------------------------------------------
(* The status shown to the web UI follows the runtime state.               *)
status_set_runtime_state(st) ==
  CASE st \in {"STARTING", "PLAYING"} -> [status EXCEPT !.playing = TRUE, !.paused = FALSE]
    [] st = "PAUSED" -> [status EXCEPT !.playing = TRUE, !.paused = TRUE]
    [] st = "STOPPING" -> [status EXCEPT !.playing = FALSE, !.paused = FALSE]
    [] OTHER -> [playing |-> FALSE, paused |-> FALSE, path |-> FALSE]

set_state(st) == state' = st /\ status' = status_set_runtime_state(st)

(* Operations of the mixer, on the state of one slot.                      *)
start_stream(audible) == [SilentMix EXCEPT !.on = TRUE, !.audible = audible]

(* Mutant: the buffer is not reset.                                        *)
stop_stream_leaves_buffer(m) == [SilentMix EXCEPT !.pcm = m.pcm]

stop_stream(m) == SilentMix

finish_stream(m) ==
  IF m.pcm > 0 /\ m.audible
  THEN [m EXCEPT !.on = FALSE, !.fading = m.pcm = 1, !.muted = FALSE, !.tail = m.pcm > 1]
  ELSE [SilentMix EXCEPT !.pcm = m.pcm]

fade_out_stream(m) ==
  IF m.on \/ m.pcm > 0 THEN [m EXCEPT !.fading = TRUE, !.muted = FALSE, !.tail = FALSE] ELSE m

set_stream_audible(m) == IF m.on THEN [m EXCEPT !.audible = TRUE] ELSE m

channel_should_read(m) ==
  IF ~m.on
  THEN [read |-> m.pcm > 0,
        then |-> IF m.pcm = 0 THEN SilentMix
                 ELSE IF m.tail /\ ~m.fading /\ m.pcm = 1
                      THEN [m EXCEPT !.fading = TRUE, !.muted = FALSE, !.tail = FALSE] ELSE m]
  ELSE LET p == [m EXCEPT !.primed = m.primed \/ m.pcm >= PREROLL]
       IN [read |-> p.primed /\ p.audible, then |-> p]

(* A processed chunk ends a fade; a faded stream is muted until restarted. *)
apply_fade_out(m, processed) ==
  IF m.fading /\ processed THEN [m EXCEPT !.fading = FALSE, !.muted = TRUE] ELSE m

receive_pcm(m, read) == IF read /\ m.pcm > 0 THEN [m EXCEPT !.pcm = m.pcm - 1] ELSE m

---------------------------------------------------------------------------
(* The I2S output.                                                         *)
output_enable == IF tx = "gone" THEN "gone" ELSE "on"

(* Silence is preloaded before the channel is enabled; both may fail.      *)
output_start == IF tx = "off" THEN {"on", "off"} ELSE {tx}

output_write == IF tx = "on" THEN {"ok", "timeout", "failed"} ELSE {"invalid"}

drain_silence == output_enable

(* The channel is deleted and set up again.                                *)
output_reset == {"off", "gone"}

(* Two beeps tell that the SD card or the reader is missing.               *)
play_tone == output_enable

(* The mixer task.                                                         *)
mixer_any_active == \E s \in Slots : mix[s].on \/ mix[s].pcm > 0

mixer_idle ==
  /\ ~mixer_any_active /\ output_state = "RUNNING"
  /\ output_state' = "IDLE"
  /\ tx' = drain_silence
  /\ UNCHANGED <<rt, state, active, chan, stop, paused, reader, player_notified, mix, status, heard, background>>

mixer_start_output_if_needed ==
  /\ mixer_any_active /\ output_state # "RUNNING"
  /\ tx' \in output_start
  /\ output_state' = IF tx' = "on" THEN "RUNNING" ELSE "PRIMING"
  /\ UNCHANGED <<rt, state, active, chan, stop, paused, reader, player_notified, mix, status, heard, background>>

(* One slot of a pass, then the write of what was mixed: a failed or       *)
(* partial write resets the output, and a channel found not started makes  *)
(* the next pass start it.                                                 *)
mixer_pass(s) ==
  LET r == channel_should_read(mix[s])
      got == r.read /\ mix[s].pcm > 0
  IN /\ mixer_any_active /\ output_state = "RUNNING"
     /\ mix' = [mix EXCEPT ![s] = apply_fade_out(receive_pcm(r.then, r.read), got \/ r.then.fading)]
     /\ heard' = [heard EXCEPT ![s] = IF got /\ heard[s] # Uncounted THEN heard[s] + 1 ELSE heard[s]]
     /\ \E w \in output_write :
          /\ output_state' = IF w \in {"failed", "invalid"} THEN "IDLE" ELSE "RUNNING"
          /\ tx' \in IF w = "failed" /\ got THEN output_reset ELSE {tx}
     /\ UNCHANGED <<rt, state, active, chan, stop, paused, reader, player_notified, status, background>>

mixer_task == mixer_idle \/ mixer_start_output_if_needed \/ \E s \in Slots : mixer_pass(s)

---------------------------------------------------------------------------
(* The reader task of slot s.                                              *)
At(s, pc) == reader[s].pc = pc
Goto(s, pc) == reader' = [reader EXCEPT ![s].pc = pc]

(* The stop bit is cleared first: a stop requested before is lost.         *)
reader_clear_stop(s) ==
  /\ At(s, "created")
  /\ stop' = [stop EXCEPT ![s] = FALSE]
  /\ Goto(s, "started")
  /\ UNCHANGED <<rt, state, active, chan, paused, player_notified, mix, output_state, tx, status, heard, background>>

reader_started(s) ==
  /\ At(s, "started")
  /\ chan' = [chan EXCEPT ![s].done = FALSE, ![s].waiter = FALSE, ![s].path = reader[s].file]
  /\ IF state = "STARTING" THEN set_state("PLAYING") ELSE UNCHANGED <<state, status>>
  /\ Goto(s, "open")
  /\ UNCHANGED <<rt, active, stop, paused, player_notified, mix, output_state, tx, heard, background>>

reader_open(s) ==
  /\ At(s, "open")
  /\ IF reader[s].file = "missing"
     THEN Goto(s, "ended") /\ UNCHANGED status
     ELSE /\ status' = [playing |-> TRUE, paused |-> FALSE, path |-> TRUE]
          /\ Goto(s, IF reader[s].file = "bad" THEN "ended" ELSE "read")
  /\ UNCHANGED <<rt, state, active, chan, stop, paused, player_notified, mix, output_state, tx, heard, background>>

(* After a chunk was read: the stop bit, the pause, the stream's own       *)
(* state, and the space in it.  A background that repeats starts again     *)
(* unless it is asked to stop, even when its stream was stopped.           *)
decode_step(s) ==
  /\ At(s, "read")
  /\ IF reader[s].left = 0 \/ stop[s] THEN Goto(s, "ended")
     ELSE /\ ~paused
          /\ IF ~mix[s].on THEN reader[s].file # "loop" /\ Goto(s, "ended")
             ELSE mix[s].pcm < PREROLL /\ Goto(s, "send")
  /\ UNCHANGED <<rt, state, active, chan, stop, paused, player_notified, mix, output_state, tx, status, heard, background>>

mixer_write(s) ==
  /\ At(s, "send") /\ mix[s].pcm < PREROLL
  /\ mix' = [mix EXCEPT ![s].pcm = @ + 1]
  /\ reader' = [reader EXCEPT ![s].pc = "read", ![s].left = IF reader[s].file = "loop" THEN @ ELSE @ - 1]
  /\ UNCHANGED <<rt, state, active, chan, stop, paused, player_notified, output_state, tx, status, heard, background>>

reader_ended(s) ==
  /\ At(s, "ended")
  /\ chan' = [chan EXCEPT ![s].path = IF @ = reader[s].file THEN NoFile ELSE @]
  /\ mix' = [mix EXCEPT ![s] = finish_stream(@)]
  /\ Goto(s, "finish")
  /\ UNCHANGED <<rt, state, active, stop, paused, player_notified, output_state, tx, status, heard, background>>

(* The waiter taken here is notified after the lock: the runtime task only *)
(* waits for one slot at a time, so both are one step.                     *)
reader_finished(s) ==
  /\ At(s, "finish")
  /\ chan' = [chan EXCEPT ![s].done = TRUE, ![s].task = FALSE, ![s].waiter = FALSE]
  /\ reader' = [reader EXCEPT ![s] = NoReader]
  /\ IF \A t \in Slots : ~chan'[t].task THEN set_state("IDLE") ELSE UNCHANGED <<state, status>>
  /\ player_notified' = (player_notified \/ chan[s].waiter)
  /\ UNCHANGED <<rt, active, stop, paused, mix, output_state, tx, heard, background>>

reader_task(s) ==
  \/ reader_clear_stop(s) \/ reader_started(s) \/ reader_open(s) \/ decode_step(s)
  \/ mixer_write(s) \/ reader_ended(s) \/ reader_finished(s)

---------------------------------------------------------------------------
(* The runtime task: one action per kind of operation.                     *)
Op(name, s) == [op |-> name, s |-> s, file |-> NoFile, audible |-> TRUE]
Start(s, file, audible) == [op |-> "start", s |-> s, file |-> file, audible |-> audible]

AtOp(name) == player_todo # <<>> /\ Head(player_todo).op = name
Slot == Head(player_todo).s
OpDone == player_todo' = Tail(player_todo)
Abort == player_todo' = <<>>

(* Whether a background plays: a reader that is not done, or its stream.   *)
channel_has_reader ==
  \E s \in Background : (chan[s].task /\ ~chan[s].done) \/ mix[s].on

alternate_background_slot == IF active = "A" THEN "B" ELSE "A"

handle_play(c, sd) ==
  IF ~sd THEN <<Op("error", "E")>>
  ELSE IF c.type = "play_background"
  THEN IF channel_has_reader
       THEN <<Start(alternate_background_slot, c.file, FALSE), Op("prime", alternate_background_slot),
              Op("fade", active), Op("faded", active), Op("stop", active),
              Op("switch", alternate_background_slot)>>
       ELSE <<Op("stop", active), Start(active, c.file, TRUE)>>
  ELSE <<Op("fade", "E"), Op("faded", "E"), Op("stop!", "E"), Start("E", c.file, TRUE)>>

handle_stop_channel(background_channel) ==
  IF background_channel
  THEN <<Op("fade", "A"), Op("faded", "A"), Op("fade", "B"), Op("faded", "B"),
         Op("stop", "A"), Op("stop", "B"), Op("idle", "A")>>
  ELSE <<Op("fade", "E"), Op("faded", "E"), Op("stop", "E"), Op("idle", "E")>>

handle_stop ==
  <<Op("fade", "A"), Op("fade", "B"), Op("fade", "E"), Op("faded", "A"), Op("faded", "B"), Op("faded", "E"),
    Op("stop", "A"), Op("stop", "B"), Op("stop", "E"), Op("idle", "E")>>

handle_pause ==
  IF state \in {"PLAYING", "STARTING"} THEN paused' = TRUE /\ set_state("PAUSED")
  ELSE UNCHANGED <<paused, state, status>>

handle_resume ==
  IF state = "PAUSED" THEN paused' = FALSE /\ set_state("PLAYING")
  ELSE UNCHANGED <<paused, state, status>>

(* xQueueReceive and the switch on the command's type.                     *)
audio_runtime_task ==
  /\ player_todo = <<>> /\ queue # <<>>
  /\ queue' = Tail(queue)
  /\ LET c == Head(queue) IN
       /\ CASE c.type \in {"play", "play_effect", "seek", "play_background"} -> \E sd \in BOOLEAN : player_todo' = handle_play(c, sd)
            [] c.type = "stop" -> player_todo' = handle_stop
            [] c.type = "stop_background" -> player_todo' = handle_stop_channel(TRUE)
            [] c.type = "stop_effect" -> player_todo' = handle_stop_channel(FALSE)
            [] OTHER -> player_todo' = <<>>
       /\ CASE c.type = "pause" -> handle_pause
            [] c.type = "resume" -> handle_resume
            [] c.type = "stop" -> paused' = FALSE /\ UNCHANGED <<state, status>>
            [] OTHER -> UNCHANGED <<paused, state, status>>
       /\ background' = IF c.type \in {"stop", "stop_background"} THEN NoFile ELSE background
  /\ UNCHANGED <<sent, active, chan, stop, reader, player_notified, mix, output_state, tx, heard>>

start_slot_fade_out ==
  /\ AtOp("fade") /\ OpDone
  /\ mix' = [mix EXCEPT ![Slot] = fade_out_stream(@)]
  /\ UNCHANGED <<queue, sent, state, active, chan, stop, paused, reader, player_notified, output_state, tx, status, heard, background>>

(* Polls until the fade is over; the wait itself has an end.               *)
wait_slot_fade_out_complete ==
  /\ AtOp("faded") /\ OpDone
  /\ UNCHANGED <<queue, sent, state, active, chan, stop, paused, reader, player_notified, mix, output_state, tx, status, heard, background>>

(* stop_reader_slot up to its lock, its lock section, and its wait.        *)
stop_reader_request ==
  /\ AtOp("stop") \/ AtOp("stop!")
  /\ stop' = [stop EXCEPT ![Slot] = TRUE]
  /\ mix' = [mix EXCEPT ![Slot] = stop_stream(@)]
  /\ heard' = [heard EXCEPT ![Slot] = 0]
  /\ set_state("STOPPING")
  /\ player_todo' = <<[Head(player_todo) EXCEPT !.op = IF @ = "stop" THEN "ask" ELSE "ask!"]>> \o Tail(player_todo)
  /\ UNCHANGED <<queue, sent, active, chan, paused, reader, player_notified, output_state, tx, background>>

stop_reader_lock ==
  /\ AtOp("ask") \/ AtOp("ask!")
  /\ LET c == chan[Slot]
         wait == c.task /\ ~c.done
     IN /\ chan' = [chan EXCEPT ![Slot].done = ~wait, ![Slot].waiter = wait]
        /\ player_todo' = (IF wait THEN <<[Head(player_todo) EXCEPT !.op = IF @ = "ask" THEN "drop" ELSE "drop!"]>> ELSE <<>>) \o Tail(player_todo)
  /\ UNCHANGED <<queue, sent, state, active, stop, paused, reader, player_notified, mix, output_state, tx, status, heard, background>>

(* An old notification is dropped, and with it a new one already given.    *)
stop_reader_drop_notification ==
  /\ AtOp("drop") \/ AtOp("drop!")
  /\ player_notified' = FALSE
  /\ player_todo' = <<[Head(player_todo) EXCEPT !.op = IF @ = "drop" THEN "wait" ELSE "wait!"]>> \o Tail(player_todo)
  /\ UNCHANGED <<queue, sent, state, active, chan, stop, paused, reader, mix, output_state, tx, status, heard, background>>

stop_reader_wait ==
  /\ AtOp("wait") \/ AtOp("wait!")
  /\ \/ /\ player_notified /\ player_notified' = FALSE /\ OpDone
        /\ UNCHANGED <<chan, state, status>>
     \/ /\ ~player_notified /\ UNCHANGED player_notified
        /\ chan' = [chan EXCEPT ![Slot].waiter = FALSE]
        /\ set_state("ERROR")
        /\ IF AtOp("wait!") THEN Abort ELSE OpDone
  /\ UNCHANGED <<queue, sent, active, stop, paused, reader, mix, output_state, tx, heard, background>>

(* start_reader_slot up to and with the creation of the task.              *)
start_reader_slot ==
  /\ AtOp("start")
  /\ LET s == Slot
         keep == Head(player_todo).audible = FALSE
         file == Head(player_todo).file
     IN \/ /\ reader[s].pc # NoFile
           /\ set_state("ERROR") /\ Abort
           /\ background' = IF s = background THEN NoFile ELSE background
           /\ UNCHANGED <<stop, paused, mix, reader, heard, chan, tx>>
        \/ /\ reader[s].pc = NoFile
           /\ paused' = FALSE /\ stop' = [stop EXCEPT ![s] = FALSE]
           /\ heard' = [heard EXCEPT ![s] = Uncounted]
           /\ \/ /\ mix' = [mix EXCEPT ![s] = start_stream(Head(player_todo).audible)]
                 /\ set_state("STARTING")
                 /\ chan' = [chan EXCEPT ![s].path = IF s = "E" THEN file ELSE @]
                 /\ UNCHANGED tx
                 /\ reader' = [reader EXCEPT ![s] = [pc |-> "created", file |-> file, left |-> IF file = "loop" THEN 1 ELSE PREROLL + 1]]
                 /\ player_todo' = <<Op("started", s)>> \o Tail(player_todo)
                 /\ background' = IF s \in Background /\ ~keep THEN s ELSE background
              \/ /\ mix' = [mix EXCEPT ![s] = stop_stream(@)]
                 /\ set_state("ERROR")
                 /\ chan' = [chan EXCEPT ![s].path = IF s = "E" THEN NoFile ELSE @]
                 /\ Abort
                 /\ background' = IF s \in Background /\ ~keep THEN NoFile ELSE background
                 /\ tx' = play_tone
                 /\ UNCHANGED reader
  /\ UNCHANGED <<queue, sent, active, player_notified, output_state>>

(* The handle is recorded after the task was created: the reader may       *)
(* already have finished, and then nothing clears the handle again.        *)
start_reader_record ==
  /\ AtOp("started") /\ OpDone
  /\ chan' = [chan EXCEPT ![Slot].task = TRUE, ![Slot].done = FALSE, ![Slot].waiter = FALSE]
  /\ UNCHANGED <<queue, sent, state, active, stop, paused, reader, player_notified, mix, output_state, tx, status, heard, background>>

(* Mutant: after the prime timeout the current background is stopped.      *)
wait_mixer_primed_stops_current ==
  /\ AtOp("prime")
  /\ \/ mix[Slot].primed /\ OpDone
     \/ ~mix[Slot].primed /\ player_todo' = <<Op("stop", active), Op("keep", Slot)>>
  /\ UNCHANGED <<queue, sent, state, active, chan, stop, paused, reader, player_notified, mix, output_state, tx, status, heard, background>>

(* After the prime timeout the new slot is stopped and the old one kept.   *)
wait_mixer_primed ==
  /\ AtOp("prime")
  /\ \/ mix[Slot].primed /\ OpDone
     \/ ~mix[Slot].primed /\ player_todo' = <<Op("stop", Slot), Op("keep", Slot)>>
  /\ UNCHANGED <<queue, sent, state, active, chan, stop, paused, reader, player_notified, mix, output_state, tx, status, heard, background>>

switch_keep ==
  /\ AtOp("keep") /\ OpDone /\ set_state("PLAYING")
  /\ UNCHANGED <<queue, sent, active, chan, stop, paused, reader, player_notified, mix, output_state, tx, heard, background>>

switch_background ==
  /\ AtOp("switch") /\ OpDone
  /\ active' = Slot
  /\ mix' = [mix EXCEPT ![Slot] = set_stream_audible(@)]
  /\ background' = Slot
  /\ set_state("PLAYING")
  /\ UNCHANGED <<queue, sent, chan, stop, paused, reader, player_notified, output_state, tx, heard>>

handler_end ==
  /\ AtOp("idle") \/ AtOp("error")
  /\ OpDone
  /\ set_state(IF AtOp("idle") THEN "IDLE" ELSE "ERROR")
  /\ chan' = IF AtOp("idle") /\ Slot = "E" THEN [chan EXCEPT !["E"].path = NoFile] ELSE chan
  /\ tx' = IF AtOp("error") THEN play_tone ELSE tx
  /\ UNCHANGED <<queue, sent, active, stop, paused, reader, player_notified, mix, output_state, heard, background>>

runtime_task ==
  \/ audio_runtime_task \/ start_slot_fade_out \/ wait_slot_fade_out_complete
  \/ stop_reader_request \/ stop_reader_lock \/ stop_reader_drop_notification \/ stop_reader_wait
  \/ start_reader_slot \/ start_reader_record \/ wait_mixer_primed
  \/ switch_keep \/ switch_background \/ handler_end

---------------------------------------------------------------------------
(* The callers: a full queue drops the command after 50 ms.                *)
Command(type, file) == [type |-> type, file |-> file]

runtime_enqueue(c) ==
  /\ sent < MAX_PLAYER_COMMANDS
  /\ sent' = sent + 1
  /\ queue' = IF Len(queue) < QUEUE_LEN THEN Append(queue, c) ELSE queue
  /\ UNCHANGED <<player_todo, state, active, chan, stop, paused, reader, player_notified, mix, output_state, tx, status, heard, background>>

play_background == \E f \in Files : runtime_enqueue(Command("play_background", f))
play_effect == \E f \in Files \ {"loop"}, t \in Requests \cap {"play", "play_effect"} : runtime_enqueue(Command(t, f))
control == \E t \in Requests \ {"play", "play_effect", "play_background", "seek"} : runtime_enqueue(Command(t, NoFile))

(* A seek restarts the effect that is playing, if the status knows a path. *)
seek ==
  /\ chan["E"].path # NoFile /\ (status.playing \/ status.paused) /\ status.path
  /\ runtime_enqueue(Command("seek", chan["E"].path))

Callers ==
  \/ "play_background" \in Requests /\ play_background
  \/ play_effect \/ control
  \/ "seek" \in Requests /\ seek

PlayerNext == runtime_task \/ mixer_task \/ (\E s \in Slots : reader_task(s)) \/ Callers
PlayerSpec == PlayerInit /\ [][PlayerNext]_player_vars

---------------------------------------------------------------------------
(* Whatever the reader and the mixer are doing when the runtime task stops *)
(* a slot, at most the one chunk the reader was writing is still played:   *)
(* the reader checks the stream and writes to it in two steps, and the     *)
(* mixer plays what it finds in a stream that is not active               *)
(* (stop_reader_slot, audio_player_mixer_write, channel_should_read).      *)
StopIsNear == \A s \in Slots : heard[s] \in {0, 1, Uncounted}

(* Between two commands, the background the last command left playing is   *)
(* the one the next switch will fade out, and it is not mute: while its    *)
(* reader goes on, its stream is open and audible, whether the switch was  *)
(* completed or given up because the new piece was not primed in time      *)
(* (handle_play).                                                          *)
BackgroundKept ==
  (player_todo = <<>> /\ background # NoFile) =>
    /\ active = background
    /\ reader[background].pc \in {"read", "send"} =>
         mix[background].on /\ mix[background].audible /\ ~mix[background].muted

=============================================================================
