------------------------------ MODULE Mailbox ------------------------------
(***************************************************************************)
(* The application-control protocol of the driver (mqnic.c): every call    *)
(* packs one message into a 32-bit word and writes it to a register of the *)
(* NIC, either the per-queue CPU message register (register_app,           *)
(* deregister_app, mqnic_rx_feedback, mqnic_rearm_monitor,                 *)
(* mqnic_rearm_scale_down_monitor, and the dispatcher init of init_rx) or  *)
(* the port-wide APP_CONFIG register (config_app_mat,                      *)
(* mqnic_port_reset_monitor, mqnic_port_set_monitor).                      *)
(*                                                                         *)
(* The NIC side (spec section 4.6, the packing table) takes the words of   *)
(* each register in the order they were written (MMIO writes to the device *)
(* are posted in order) and decodes them by the table.  Each write carries, *)
(* as a ghost, the message its call meant to send.                         *)
(*                                                                         *)
(* A word is kept as its two 16-bit halves, so that the masks 0xffff0000   *)
(* and 0xf0000000 and the fields above bit 30 stay within TLC's integers.  *)
(***************************************************************************)
EXTENDS Naturals, Sequences, SequencesExt, Bitwise

CONSTANTS
  Apps,         \* app_id arguments (uint16_t)
  Prios,        \* priority arguments (uint8_t)
  Counts,       \* update_count arguments of mqnic_rx_feedback (uint16_t)
  PortNums,     \* port_num arguments of config_app_mat (uint16_t)
  EpochLogs,    \* cong_eopch_log and scale_down_eopch_log arguments (uint8_t)
  Threshs,      \* scale_down_thresh arguments (uint8_t)
  MaxPending,   \* words in flight to one register
  AfterInitRx       \* does the behaviour start with init_rx's dispatcher init?

VARIABLES
  mbox,         \* writes to the CPU message register the NIC has not taken:
                \* the word and (ghost) the message the call meant
  port_mbox     \* the same for the APP_CONFIG register

vars == <<mbox, port_mbox>>

H == 65536

\* (x << shift) & mask for a 32-bit mask given as halves mhi:mlo, with x
\* promoted to a 32-bit int as C does; the result as halves.
Field(x, shift, mhi, mlo) ==
  IF shift >= 16
  THEN [hi |-> ((x * 2^(shift - 16)) % H) & mhi, lo |-> 0]
  ELSE [hi |-> ((x \div 2^(16 - shift)) % H) & mhi,
        lo |-> ((x * 2^shift) % H) & mlo]

\* A plain constant below 2^16 as a word.
Lit(v) == [hi |-> 0, lo |-> v]

WOr(a, b) == [hi |-> a.hi | b.hi, lo |-> a.lo | b.lo]

RECURSIVE WOrAll(_)
WOrAll(s) == IF s = <<>> THEN Lit(0) ELSE WOr(Head(s), WOrAll(Tail(s)))

-----------------------------------------------------------------------------
(* The words each call writes.                                             *)

\* register_app: ((1 << 20) & 0x00f00000) | ((5 << 16) & 0x000f0000)
\*   | ((app_id << 4) & 0x00000ff0) | ((priority << 12) & 0x0000f000) | 3
RegisterWord(app, prio) ==
  WOrAll(<<Field(1, 20, 240, 0), Field(5, 16, 15, 0), Field(app, 4, 0, 4080),
           Field(prio, 12, 0, 61440), Lit(3)>>)

\* deregister_app: ((app_id << 4) & 0x00000ff0) | 4
DeregisterWord(app) == WOr(Field(app, 4, 0, 4080), Lit(4))

\* mqnic_rx_feedback: ((update_count << 16) & 0xffff0000)
\*   | ((app_id << 4) & 0x00000ff0) | 5
FeedbackWord(app, count) ==
  WOrAll(<<Field(count, 16, 65535, 0), Field(app, 4, 0, 4080), Lit(5)>>)

\* mqnic_rearm_monitor and mqnic_rearm_scale_down_monitor:
\* ((app_id << 4) & 0x00000ff0) | op, op 6 (reset) or 7 (rearm).
MonitorWord(app, op) == WOr(Field(app, 4, 0, 4080), Lit(op))

\* config_app_mat: ((port_num << 16) & 0xffff0000)
\*   | ((priority << 12) & 0x0000f000) | ((app_id << 4) & 0x00000ff0)
ConfigAppMatWord(app, port, prio) ==
  WOrAll(<<Field(port, 16, 65535, 0), Field(prio, 12, 0, 61440), Field(app, 4, 0, 4080)>>)

\* mqnic_port_reset_monitor: 2 & 0x0000000f
ResetMonitorWord == Lit(2)

\* mqnic_port_set_monitor: ((scale_down_thresh << 28) & 0xf0000000)
\*   | ((cong_eopch_log << 20) & 0x0ff00000)
\*   | ((scale_down_eopch_log << 12) & 0x000ff000)
\*   | ((app_id << 4) & 0x00000ff0) | 1
\* Mutation: the scale-down log masked to bits 15:12 only (0x0000f000).
MutSetMonitorWordLogLow(app, cong, sdlog, thresh) ==
  WOrAll(<<Field(thresh, 28, 61440, 0), Field(cong, 20, 4080, 0),
           Field(sdlog, 12, 0, 61440), Field(app, 4, 0, 4080), Lit(1)>>)

SetMonitorWord(app, cong, sdlog, thresh) ==
  WOrAll(<<Field(thresh, 28, 61440, 0), Field(cong, 20, 4080, 0),
           Field(sdlog, 12, 15, 61440), Field(app, 4, 0, 4080), Lit(1)>>)

\* init_rx: the dispatcher's per-core queue init, the constant 17.
DispatcherInitWord == Lit(17)

-----------------------------------------------------------------------------
(* The NIC's reading of a word, by the packing table of spec 4.6.          *)
OpOf(w)   == w.lo & 15
AppOf(w)  == shiftR(w.lo, 4) & 255
PrioOf(w) == shiftR(w.lo, 12) & 15

DecodeCpuMsg(w) ==
  CASE OpOf(w) = 3 -> [kind |-> "register", app |-> AppOf(w), prio |-> PrioOf(w),
                       sub_op |-> w.hi & 15, class |-> shiftR(w.hi, 4) & 15]
    [] OpOf(w) = 4 -> [kind |-> "deregister", app |-> AppOf(w)]
    [] OpOf(w) = 5 -> [kind |-> "feedback", app |-> AppOf(w), count |-> w.hi]
    [] OpOf(w) = 6 -> [kind |-> "monitor_reset", app |-> AppOf(w)]
    [] OpOf(w) = 7 -> [kind |-> "monitor_rearm", app |-> AppOf(w)]
    [] OTHER       -> [kind |-> "undefined", opcode |-> OpOf(w)]

DecodeAppConfig(w) ==
  CASE OpOf(w) = 0 -> [kind |-> "config_app_mat", app |-> AppOf(w),
                       prio |-> PrioOf(w), port |-> w.hi]
    [] OpOf(w) = 1 -> [kind |-> "set_monitor", app |-> AppOf(w),
                       cong |-> shiftR(w.hi, 4) & 255,
                       sdlog |-> shiftR(w.lo, 12) + 16 * (w.hi & 15),
                       thresh |-> shiftR(w.hi, 12)]
    [] OpOf(w) = 2 -> [kind |-> "reset_monitor"]
    [] OTHER       -> [kind |-> "undefined", opcode |-> OpOf(w)]

-----------------------------------------------------------------------------
Init ==
  /\ mbox = IF AfterInitRx THEN <<[word |-> DispatcherInitWord,
                                meant |-> [kind |-> "dispatcher_init"]]>>
                       ELSE <<>>
  /\ port_mbox = <<>>

\* One call writing words, each with the message it stands for, to the CPU
\* message register.
Write(words, msgs) ==
  /\ Len(mbox) + Len(words) =< MaxPending
  /\ mbox' = mbox \o [i \in 1 .. Len(words) |-> [word |-> words[i], meant |-> msgs[i]]]
  /\ UNCHANGED port_mbox

PortWrite(word, msg) ==
  /\ Len(port_mbox) < MaxPending
  /\ port_mbox' = Append(port_mbox, [word |-> word, meant |-> msg])
  /\ UNCHANGED mbox

RegisterApp ==
  \E app \in Apps, prio \in Prios :
    Write(<<RegisterWord(app, prio)>>,
          <<[kind |-> "register", app |-> app, prio |-> prio, sub_op |-> 5, class |-> 1]>>)

DeregisterApp ==
  \E app \in Apps :
    Write(<<DeregisterWord(app)>>, <<[kind |-> "deregister", app |-> app]>>)

RxFeedback ==
  \E app \in Apps, count \in Counts :
    Write(<<FeedbackWord(app, count)>>,
          <<[kind |-> "feedback", app |-> app, count |-> count]>>)

\* Two writes: reset the app's monitor, then rearm it.
RearmMonitor ==
  \E app \in Apps :
    Write(<<MonitorWord(app, 6), MonitorWord(app, 7)>>,
          <<[kind |-> "monitor_reset", app |-> app], [kind |-> "monitor_rearm", app |-> app]>>)

RearmScaleDownMonitor ==
  \E app \in Apps :
    Write(<<MonitorWord(app, 7)>>, <<[kind |-> "monitor_rearm", app |-> app]>>)

ConfigAppMat ==
  \E app \in Apps, port \in PortNums, prio \in Prios :
    PortWrite(ConfigAppMatWord(app, port, prio),
              [kind |-> "config_app_mat", app |-> app, prio |-> prio, port |-> port])

PortResetMonitor ==
  PortWrite(ResetMonitorWord, [kind |-> "reset_monitor"])

PortSetMonitor ==
  \E app \in Apps, cong \in EpochLogs, sdlog \in EpochLogs, thresh \in Threshs :
    PortWrite(SetMonitorWord(app, cong, sdlog, thresh),
              [kind |-> "set_monitor", app |-> app, cong |-> cong, sdlog |-> sdlog,
               thresh |-> thresh])

\* The NIC takes the oldest write of a register (and acts on its decoding).
NicTakeCpuMsg ==
  /\ mbox # <<>>
  /\ mbox' = Tail(mbox)
  /\ UNCHANGED port_mbox

NicTakeAppConfig ==
  /\ port_mbox # <<>>
  /\ port_mbox' = Tail(port_mbox)
  /\ UNCHANGED mbox

Next ==
  \/ RegisterApp \/ DeregisterApp \/ RxFeedback
  \/ RearmMonitor \/ RearmScaleDownMonitor
  \/ ConfigAppMat \/ PortResetMonitor \/ PortSetMonitor
  \/ NicTakeCpuMsg \/ NicTakeAppConfig

Spec == Init /\ [][Next]_vars

-----------------------------------------------------------------------------
Word == [hi : 0 .. H - 1, lo : 0 .. H - 1]

TypeOK ==
  /\ \A m \in ToSet(mbox) \cup ToSet(port_mbox) : m.word \in Word
  /\ Len(mbox) =< MaxPending /\ Len(port_mbox) =< MaxPending

(* Spec 4.6: every word a call writes decodes, by the packing table, to   *)
(* the message the call meant, on both registers: opcode, app_id,          *)
(* priority, sub-op and class of register_app, update_count of feedback,  *)
(* the port entry of config_app_mat and the three monitor parameters of    *)
(* set_monitor.  The shifts and masks must put each argument whole in its  *)
(* own field, and no two fields may overlap.                               *)
MailboxFaithful ==
  /\ \A i \in 1 .. Len(mbox) : DecodeCpuMsg(mbox[i].word) = mbox[i].meant
  /\ \A i \in 1 .. Len(port_mbox) : DecodeAppConfig(port_mbox[i].word) = port_mbox[i].meant
=============================================================================
