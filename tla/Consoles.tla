------------------------------ MODULE Consoles ------------------------------
(***************************************************************************)
(* Where the kernel's messages go: the logger (Logging/Console) formats a  *)
(* message into its one static buffer, the platform console (Io/Console)   *)
(* hands that to the loader's terminal, the debug port and the framebuffer *)
(* console, and the last of these takes it character by character.         *)
(*                                                                         *)
(* `calls` is the stack of the framebuffer console's write loops: a        *)
(* message that is logged while a character is being written runs a loop   *)
(* of its own inside the first, over the same buffer and the same console. *)
(***************************************************************************)
EXTENDS FbCons

CONSTANTS
  gPriority,   \* the filter
  Off,         \* what the framebuffer shows before it is a console
  Pitch        \* of the framebuffer, in cells

T == INSTANCE Terminal WITH Columns <- Width, Lines <- Height,
                            Scroll <- ScrollAmount

VARIABLES
  gTerminalWrite,  \* the loader's terminal is in use
  gDebugconPort,   \* 0 when there is none
  gFbCons,         \* the framebuffer console exists
  con,             \* its fields
  buf,             \* Log's static buffer
  calls,           \* write loops in progress, [op, next, length, ist]
  reason,          \* of the first panic
  halted,
  wanted           \* history: the commands of the messages for it; one panic

logVars == <<con, buf, calls, wanted>>
consoleVars ==
  <<gTerminalWrite, gDebugconPort, gFbCons, con, buf, calls, reason, halted, wanted>>

NoReason == "none"

Glyphs(chars) == [i \in DOMAIN chars |->
                    [op |-> "put", char |-> chars[i], shows |-> chars[i]]]
LineBreak == <<[op |-> "newline"]>>
Painted(attributes) == <<[op |-> "paint", attributes |-> attributes]>>

Value == [Error |-> 5, Warning |-> 4, Notice |-> 3, Debug |-> 2, Trace |-> 1]
Passes(level) == level = "Error" \/ Value[gPriority] <= Value[level]

\* vsnprintf replaces the start of the buffer, and Log its NUL by a newline.
Format(cmds) ==
  LET text == T!TextOf(cmds) \o <<Code.newline>>
  IN  text \o SubSeq(buf, Len(text) + 1, Len(buf))

\* Log, up to the loop of FbCons::Console::write; `op` tells who called it, and
\* `ist` the interrupt stack it runs on, when it is the first to do so.
Log(op, ist, stack, cmds) ==
  /\ buf' = Format(cmds)
  /\ calls' = Append(stack, [op |-> op, next |-> 1, ist |-> ist,
                             length |-> Len(T!TextOf(cmds)) + 1])
  /\ wanted' = IF gFbCons /\ (op = "panic" => reason = NoReason)
               THEN wanted \o cmds \o LineBreak ELSE wanted

\* Notice, Warning and the other level functions.
Say(level, cmds) ==
  /\ IF Passes(level) THEN Log("message", 0, calls, cmds)
     ELSE UNCHANGED <<buf, calls, wanted>>
  /\ UNCHANGED <<gTerminalWrite, gDebugconPort, gFbCons, con, reason, halted>>

\* "\n\033[101;97mPANIC: %s\033[0m\nPC = %p\n" and "Backtrace:%s"
PanicText == LineBreak
  \o Painted(<<[what |-> "bg", index |-> 9], [what |-> "fg", index |-> 15]>>)
  \o Glyphs(<<80>>) \o Painted(<<[what |-> "reset", index |-> 0]>>)
  \o LineBreak \o Glyphs(<<67>>) \o LineBreak

BacktraceText == Glyphs(<<66>>)

\* An exception starts at the top of its interrupt stack: calls that are under
\* way on it are lost.
Cut(stack, ist) ==
  LET lost == {i \in DOMAIN stack : ist # 0 /\ stack[i].ist = ist}
      first == CHOOSE i \in lost : \A j \in lost : i <= j
  IN  IF lost = {} THEN stack ELSE SubSeq(stack, 1, first - 1)

\* Console::Panic, which logs twice and then halts the machine.
PanicOver(stack, ist, why) ==
  /\ reason' = IF reason = NoReason THEN why ELSE reason
  /\ Log("panic", ist, Cut(stack, ist), PanicText)

\* Reasons that are page faults.
PageFaults == {"fault", "bitmap", "tables", "symbols"}
StackFor(why) == IF why \in PageFaults THEN 7 ELSE 0

PanicOn(ist, why) ==
  /\ PanicOver(calls, ist, why)
  /\ UNCHANGED <<gTerminalWrite, gDebugconPort, gFbCons, con, halted>>

Panic(why) == PanicOn(StackFor(why), why)

-----------------------------------------------------------------------------
Writing == calls # << >> /\ ~halted
Loop == calls[Len(calls)]
MoreToWrite == gFbCons /\ Loop.next <= Loop.length

\* One round of Console::write(str, length).
WriteStep ==
  /\ Writing /\ MoreToWrite
  /\ \E r \in {WriteChar(con, buf[Loop.next])},
        advanced \in {[calls EXCEPT ![Len(calls)].next = @ + 1]} :
       /\ con' = r.con
       /\ CASE r.call = "none" ->
                 calls' = advanced /\ UNCHANGED <<buf, reason, wanted>>
            [] r.call = "scroll" ->
                 /\ calls' = Append(advanced, [op |-> "scroll", next |-> 1, ist |-> 0,
                                               length |-> 0])
                 /\ UNCHANGED <<buf, reason, wanted>>
            [] r.call = "unhandled" ->
                 Log("unhandled", 0, advanced, Glyphs(<<85>>)) /\ UNCHANGED reason
            [] OTHER -> PanicOver(advanced, StackFor(r.call), r.call)
  /\ UNCHANGED <<gTerminalWrite, gDebugconPort, gFbCons, halted>>

\* The end of a write loop or of scrolling, back in the function that called.
\* Panic walks the stack next, and may read the symbol tables.
Return(symbolsReadable) ==
  LET rest == Front(calls)
  IN  /\ Writing /\ ~MoreToWrite
      /\ con' = CASE Loop.op = "unhandled" -> ToIdle(con)
                  [] Loop.op = "scroll" -> EndNewLine(con)
                  [] OTHER -> con
      /\ CASE Loop.op = "panic" /\ symbolsReadable ->
                Log("backtrace", Loop.ist, rest, BacktraceText) /\ UNCHANGED reason
           [] Loop.op = "panic" /\ ~symbolsReadable ->
                PanicOver(calls, StackFor("symbols"), "symbols")
           [] OTHER -> calls' = rest /\ UNCHANGED <<buf, reason, wanted>>
      /\ halted' = (Loop.op = "backtrace")
      /\ UNCHANGED <<gTerminalWrite, gDebugconPort, gFbCons>>

\* Io/Console: PrepareForVm and VmEnabled.  VmEnabled does not pass
\* gFbStride on, so GivenStride is 0 whatever Pitch is.
PrepareForVm ==
  /\ gTerminalWrite' = FALSE
  /\ UNCHANGED <<gDebugconPort, gFbCons, con, buf, calls, reason, halted, wanted>>

VmEnabled(fb) ==
  /\ IF fb THEN /\ gFbCons' = TRUE
                /\ con' = NewConsole([a \in Cells |-> Off])
     ELSE UNCHANGED <<gFbCons, con>>
  /\ UNCHANGED <<gTerminalWrite, gDebugconPort, buf, calls, reason, halted, wanted>>

\* Before Console::Init.
ConsolesOff ==
  /\ gTerminalWrite = FALSE
  /\ gDebugconPort = 0
  /\ gFbCons = FALSE
  /\ con = << >>
  /\ buf = << >>
  /\ calls = << >>
  /\ reason = NoReason
  /\ halted = FALSE
  /\ wanted = << >>
=============================================================================
