----------------------------- MODULE Interrupts -----------------------------
(***************************************************************************)
(* Interrupts of one processor from APIC::initialise on: the gates of      *)
(* InterruptVectorTable.cpp, the local APIC, the keyboard with its handler *)
(* (PS2Keyboard.cpp), exceptions, and the boot console (Console.cpp) that  *)
(* the main program and all handlers write to.                             *)
(*                                                                         *)
(* frames is the stack of interrupted contexts, main the first.  Only the  *)
(* last runs, one memory access of the console per step, and an interrupt  *)
(* may come between any two steps: every gate is a trap gate (type 0x0f),  *)
(* so the interrupt flag, once set, stays set.  The kernel is compiled     *)
(* without optimisation: `+=` is a load and a store, and the loop over the *)
(* pixels of a glyph loads the cursor for each of them.                    *)
(*                                                                         *)
(* A cell of the screen is one glyph wide and 16 pixels high.  Cells are   *)
(* numbered as the code numbers pixels, by their offset in the buffer, and *)
(* a cell holds the marks made in it: pairs of a glyph and a pixel of it.  *)
(***************************************************************************)
EXTENDS Integers, Sequences, FiniteSets

CONSTANTS
    W, H,         \* the screen in cells
    Lines,        \* lines that kernel_stage2 prints after the interrupts are on
    LineLen,      \* glyphs of such a line
    Dots,         \* pixels that write_character sets for a glyph
    Keys,         \* keys that are pressed, at most
    Capacity,     \* m_buffer_size of the keyboard (128)
    StrayVectors, \* vectors that hardware the kernel did not set up may raise
    MaxOdd        \* how many stray and spurious interrupts come

ASSUME ScreenAssumption ==
    /\ W \in Nat \ {0} /\ H \in Nat \ {0} /\ Dots \in Nat \ {0}
    /\ LineLen \in Nat /\ Lines \in Nat
    /\ Keys \in Nat /\ Capacity \in Nat \ {0} /\ MaxOdd \in Nat
    /\ StrayVectors \subseteq 32 .. 254 \ {33, 34}

VARIABLES
    frames,  \* [who, pc, text: what it has still to print, reg: a register,
             \*  dot: the next pixel of the glyph]
    iflag,   \* RFLAGS.IF
    routed,  \* the redirection entry of the keyboard is unmasked
    irr, isr,\* local APIC: requested and in service
    pressed, \* keys pressed so far; the keys are 1, 2, ...
    wire,    \* of these, the ones still in the keyboard
    port,    \* output buffer of the keyboard controller, 0 when empty
    buffer,  \* PS2Keyboard::m_buffer up to m_buffer_items
    x, y,    \* Console::m_cursor_x, m_cursor_y
    cells,   \* m_double_buffer, by cell; 0 is any glyph but main's current line's
    screen,  \* m_framebuffer, likewise
    left,    \* lines main has still to print
    env      \* [odd: stray and spurious interrupts so far; lost: an edge of
             \*  the keyboard met a masked entry; unended: not_implemented was
             \*  entered; spoilt: main's current line did not begin on blank
             \*  ground, the screen was scrolled, or write_character was
             \*  interrupted where it is Exposed]

cpu == <<frames, iflag>>
apic == <<routed, irr, isr>>
keyboard == <<pressed, wire, port, buffer>>
console == <<x, y, cells, screen>>
vars == <<cpu, apic, keyboard, console, left, env>>

KeyboardVector == 33
Exceptions == (0 .. 20) \ {15}

\* InterruptVectorTable::initialise and configure_exceptions; vector 15 and
\* those without a device get not_implemented, 255 gets no gate.
Gate(v) ==
    CASE v \in Exceptions -> "exception"
      [] v = 32 -> "timer"
      [] v = KeyboardVector -> "keyboard"
      [] v = 34 -> "mouse"
      [] v \in (0 .. 254) \ (Exceptions \cup {32, 33, 34}) -> "not_implemented"
      [] OTHER -> "absent"

Newline == 0
Message(glyphs) == Append([i \in 1 .. glyphs |-> i], Newline)

Cells == W * H
Offset(column, row) == column + W * row

Top == frames[Len(frames)]
SetTop(f) == frames' = [frames EXCEPT ![Len(frames)] = f]
Goto(pc) == SetTop([Top EXCEPT !.pc = pc])

\* A handler starts with its registers pushed.  not_implemented prints several
\* lines, of which two are kept.
Context(who) ==
    [who |-> who, reg |-> 0, dot |-> 1,
     pc |-> IF who = "keyboard" THEN "in" ELSE "put",
     text |-> IF who = "not_implemented" THEN Message(1) \o Message(1) ELSE Message(1)]

Init ==
    /\ frames = <<[who |-> "main", pc |-> "apic", text |-> <<>>, reg |-> 0, dot |-> 1]>>
    /\ iflag = FALSE /\ routed = FALSE /\ irr = {} /\ isr = {}
    /\ pressed = 0 /\ wire = <<>> /\ port = 0 /\ buffer = <<>>
    /\ x = 0 /\ y = 0
    /\ cells = [c \in 0 .. Cells - 1 |-> {}] /\ screen = cells
    /\ left = Lines
    /\ env = [odd |-> 0, lost |-> FALSE, unended |-> FALSE, spoilt |-> FALSE]

-----------------------------------------------------------------------------
(* APIC::initialise, called once by kernel_stage2.  TRY_PANIC: the panic   *)
(* prints and stops.                                                       *)

Panic == SetTop([Top EXCEPT !.pc = "put", !.who = "panic", !.text = Message(1)])

\* CPUID, the vectors of LINT and spurious interrupts, software enable; then
\* the MADT and an I/O APIC entry in it.
FindIoApic ==
    /\ Top.pc = "apic"
    /\ Goto("route") \/ Panic
    /\ UNCHANGED <<iflag, apic, keyboard, console, left, env>>

RouteKeyboard ==
    /\ Top.pc = "route"
    /\ routed' = TRUE
    /\ Goto("sti")
    /\ UNCHANGED <<iflag, irr, isr, keyboard, console, left, env>>

EnableInterrupts ==
    /\ Top.pc = "sti"
    /\ iflag' = TRUE
    /\ Goto("idle")
    /\ UNCHANGED <<apic, keyboard, console, left, env>>

\* The marks of a buffer are those of a line before.
Faded(b) == [c \in 0 .. Cells - 1 |-> {<<0, m[2]>> : m \in b[c]}]

\* The rest of kernel_stage2: println after println, and page faults.
MainPrints ==
    /\ Top.pc = "idle" /\ left > 0
    /\ left' = left - 1
    /\ SetTop([Top EXCEPT !.pc = "put", !.text = Message(LineLen)])
    /\ cells' = Faded(cells) /\ screen' = Faded(screen)
    /\ env' = [env EXCEPT !.spoilt = \E c \in 0 .. Cells - 1 : c >= Offset(x, y) /\ cells[c] # {}]
    /\ UNCHANGED <<iflag, apic, keyboard, x, y>>

MainFaults ==
    /\ Top.pc = "idle" /\ left > 0
    /\ frames' = Append(frames, Context(Gate(14)))
    /\ UNCHANGED <<iflag, apic, keyboard, console, left, env>>

-----------------------------------------------------------------------------
(* debug_putchar and Console::write_character, by the context that runs.   *)

Char == Head(Top.text)
InText(pc) == Top.pc = pc /\ Top.text # <<>>
Moves == UNCHANGED <<iflag, apic, keyboard, left, env>>

\* Mutant: a glyph beyond the right edge does not wrap.
StartCharacterUnwrapped ==
    /\ InText("put")
    /\ Goto(IF Char = Newline THEN "yload" ELSE "clamp")
    /\ UNCHANGED <<console>> /\ Moves

StartCharacter ==
    /\ InText("put")
    /\ \/ Char = Newline /\ Goto("yload") /\ UNCHANGED x
       \/ Char # Newline /\ x + 1 > W /\ x' = 0 /\ Goto("yload")
       \/ Char # Newline /\ x + 1 <= W /\ Goto("clamp") /\ UNCHANGED x
    /\ UNCHANGED <<y, cells, screen>> /\ Moves

LoadY ==
    /\ Top.pc = "yload"
    /\ SetTop([Top EXCEPT !.pc = "ystore", !.reg = y])
    /\ UNCHANGED console /\ Moves

StoreY ==
    /\ Top.pc = "ystore"
    /\ y' = Top.reg + 1
    /\ Goto(IF Char = Newline THEN "xzero" ELSE "clamp")
    /\ UNCHANGED <<x, cells, screen>> /\ Moves

ZeroX ==
    /\ Top.pc = "xzero"
    /\ x' = 0
    /\ Goto("clamp")
    /\ UNCHANGED <<y, cells, screen>> /\ Moves

AfterClamp == IF Char = Newline THEN "flip" ELSE "drawx"

\* The check of the row and the store of it; an interrupt between the two
\* changes nothing, since it leaves the cursor on the screen.
Clamp ==
    /\ Top.pc = "clamp"
    /\ \/ y + 1 > H /\ y' = H - 1 /\ Goto("scroll") /\ env' = [env EXCEPT !.spoilt = TRUE]
       \/ y + 1 <= H /\ Goto(AfterClamp) /\ UNCHANGED <<y, env>>
    /\ UNCHANGED <<x, cells, screen, iflag, apic, keyboard, left>>

\* scroll copies from the frame buffer, not from the double buffer.
Scroll ==
    /\ Top.pc = "scroll"
    /\ cells' = [c \in 0 .. Cells - 1 |-> IF c + W < Cells THEN screen[c + W] ELSE {}]
    /\ Goto(AfterClamp)
    /\ UNCHANGED <<x, y, screen>> /\ Moves

\* The loop over the pixels: m_cursor_x and m_cursor_y are loaded for each,
\* put_pixel makes an offset of them and stores there.
DrawX ==
    /\ Top.pc = "drawx"
    /\ SetTop([Top EXCEPT !.pc = "drawy", !.reg = x])
    /\ UNCHANGED console /\ Moves

DrawY ==
    /\ Top.pc = "drawy"
    /\ SetTop([Top EXCEPT !.pc = "pixel", !.reg = Offset(@, y)])
    /\ UNCHANGED console /\ Moves

Mark(f, dot) == <<IF f.who = "main" THEN Head(f.text) ELSE 0, dot>>

PutPixel ==
    /\ Top.pc = "pixel"
    /\ cells' = [cells EXCEPT ![Top.reg] = @ \cup {Mark(Top, Top.dot)}]
    /\ SetTop([Top EXCEPT !.pc = IF Top.dot = Dots THEN "xload" ELSE "drawx", !.dot = @ + 1])
    /\ UNCHANGED <<x, y, screen>> /\ Moves

LoadX ==
    /\ Top.pc = "xload"
    /\ SetTop([Top EXCEPT !.pc = "xstore", !.reg = x])
    /\ UNCHANGED console /\ Moves

StoreX ==
    /\ Top.pc = "xstore"
    /\ x' = Top.reg + 1
    /\ SetTop([Top EXCEPT !.pc = "put", !.text = Tail(@), !.dot = 1])
    /\ UNCHANGED <<y, cells, screen>> /\ Moves

\* The cursor or the glyph is half moved or drawn: what a handler prints now
\* is overwritten, or overwrites, or tears the glyph in two.
Exposed(f) ==
    \/ f.pc \in {"ystore", "drawy", "pixel", "xload", "xstore"}
    \/ f.pc = "drawx" /\ f.dot > 1
    \/ f.pc = "yload" /\ Head(f.text) # Newline

\* Mutant: debug_putchar does not flip.
NoFlip ==
    /\ Top.pc = "flip"
    /\ SetTop([Top EXCEPT !.pc = "put", !.text = Tail(@)])
    /\ UNCHANGED console /\ Moves

\* A copy of the whole buffer; a handler inside it ends in one of its own.
Flip ==
    /\ Top.pc = "flip"
    /\ screen' = cells
    /\ SetTop([Top EXCEPT !.pc = "put", !.text = Tail(@)])
    /\ UNCHANGED <<x, y, cells>> /\ Moves

\* Mutant: the wrapper of an exception returns.
AfterTextReturning(who) ==
    CASE who = "main" -> "idle"
      [] who = "panic" -> "stop"
      [] who \in {"keyboard", "timer"} -> "eoi"
      [] who \in {"not_implemented", "exception"} -> "iret"

\* What follows the last println of a context.
AfterText(who) ==
    CASE who = "main" -> "idle"
      [] who = "panic" -> "stop"
      [] who \in {"keyboard", "timer"} -> "eoi"
      [] who = "not_implemented" -> "iret"
      [] who = "exception" -> "hlt"

Printed ==
    /\ Top.pc = "put" /\ Top.text = <<>>
    /\ Goto(AfterText(Top.who))
    /\ UNCHANGED <<iflag, apic, keyboard, console, left, env>>

WriteCharacter ==
    \/ StartCharacter \/ LoadY \/ StoreY \/ ZeroX \/ Clamp \/ Scroll
    \/ DrawX \/ DrawY \/ PutPixel \/ LoadX \/ StoreX \/ Flip \/ Printed

-----------------------------------------------------------------------------
(* Handlers.                                                               *)

\* Mutant: the end of interrupt is signalled first.
ReadPortAfterEoi ==
    /\ Top.pc = "in"
    /\ SetTop([Top EXCEPT !.pc = "store", !.reg = port])
    /\ port' = 0
    /\ isr' = isr \ {KeyboardVector}
    /\ UNCHANGED <<iflag, routed, irr, pressed, wire, buffer, console, left, env>>

ReadPort ==
    /\ Top.pc = "in"
    /\ SetTop([Top EXCEPT !.pc = "store", !.reg = port])
    /\ port' = 0
    /\ UNCHANGED <<iflag, apic, pressed, wire, buffer, console, left, env>>

\* Mutant: the handler waits for room in the buffer.
StoreKeyWaiting ==
    /\ Top.pc = "store"
    /\ buffer' = IF Len(buffer) < Capacity - 1 THEN Append(buffer, Top.reg) ELSE buffer
    /\ Goto(IF Len(buffer) < Capacity - 1 THEN "put" ELSE "store")
    /\ UNCHANGED <<iflag, apic, pressed, wire, port, console, left, env>>

StoreKey ==
    /\ Top.pc = "store"
    /\ buffer' = IF Len(buffer) < Capacity - 1 THEN Append(buffer, Top.reg) ELSE buffer
    /\ Goto("put")
    /\ UNCHANGED <<iflag, apic, pressed, wire, port, console, left, env>>

HighestOf(S) == CHOOSE v \in S : \A u \in S : u <= v

\* Mutant: the handler does not write the register.
NoEndOfInterrupt ==
    /\ Top.pc = "eoi"
    /\ Goto("iret")
    /\ UNCHANGED <<iflag, apic, keyboard, console, left, env>>

EndOfInterrupt ==
    /\ Top.pc = "eoi"
    /\ isr' = isr \ {HighestOf(isr)}
    /\ Goto("iret")
    /\ UNCHANGED <<iflag, routed, irr, keyboard, console, left, env>>

ReturnFromInterrupt ==
    /\ Top.pc = "iret"
    /\ frames' = SubSeq(frames, 1, Len(frames) - 1)
    /\ UNCHANGED <<iflag, apic, keyboard, console, left, env>>

\* The processor goes on with the context on top.
Step ==
    \/ FindIoApic \/ RouteKeyboard \/ EnableInterrupts \/ MainPrints \/ MainFaults
    \/ WriteCharacter
    \/ ReadPort \/ StoreKey \/ EndOfInterrupt \/ ReturnFromInterrupt

-----------------------------------------------------------------------------
(* The local APIC, the keyboard and its controller (external).             *)

\* After hlt in an exception's wrapper there is no further instruction of it.
Interrupted(f) == IF f.pc = "hlt" THEN [f EXCEPT !.pc = "past"] ELSE f

Push(who) ==
    frames' = Append([frames EXCEPT ![Len(frames)] = Interrupted(Top)], Context(who))

Priority(v) == v \div 16

Deliverable ==
    {v \in irr : /\ v = HighestOf(irr)
                 /\ \A u \in isr : Priority(u) < Priority(v)}

Deliver ==
    /\ iflag /\ Top.pc # "past"
    /\ \E v \in Deliverable :
        /\ irr' = irr \ {v}
        /\ isr' = isr \cup {v}
        /\ Push(Gate(v))
        /\ env' = [env EXCEPT !.unended = @ \/ Gate(v) = "not_implemented",
                              !.spoilt = @ \/ Exposed(Top)]
    /\ UNCHANGED <<iflag, routed, keyboard, console, left>>

\* A spurious interrupt sets no bit; vector 255 has no gate, which makes it
\* the exception for a segment that is not present.
Spurious ==
    /\ iflag /\ Top.pc # "past" /\ env.odd < MaxOdd
    /\ env' = [env EXCEPT !.odd = @ + 1, !.spoilt = @ \/ Exposed(Top)]
    /\ Push(IF Gate(255) = "absent" THEN Gate(11) ELSE Gate(255))
    /\ UNCHANGED <<iflag, apic, keyboard, console, left>>

Stray ==
    /\ env.odd < MaxOdd /\ iflag
    /\ env' = [env EXCEPT !.odd = @ + 1]
    /\ \E v \in StrayVectors : irr' = irr \cup {v}
    /\ UNCHANGED <<cpu, routed, isr, keyboard, console, left>>

Press ==
    /\ pressed < Keys
    /\ pressed' = pressed + 1
    /\ wire' = Append(wire, pressed + 1)
    /\ UNCHANGED <<cpu, apic, port, buffer, console, left, env>>

\* The controller takes the next key once the last was read, and raises its
\* line: an edge, which a masked entry of the I/O APIC does not keep.
Transmit ==
    /\ port = 0 /\ wire # <<>>
    /\ port' = Head(wire) /\ wire' = Tail(wire)
    /\ irr' = IF routed THEN irr \cup {KeyboardVector} ELSE irr
    /\ env' = [env EXCEPT !.lost = @ \/ ~routed]
    /\ UNCHANGED <<cpu, routed, isr, pressed, buffer, console, left>>

\* Waiting: for an interrupt in hlt or the last loop, or for good.
Wait ==
    /\ Top.pc \in {"hlt", "past", "stop"} \/ (Top.pc = "idle" /\ left = 0)
    /\ UNCHANGED vars

Next == Step \/ Deliver \/ Spurious \/ Stray \/ Press \/ Transmit \/ Wait

\* The processor executes and takes interrupts it can take; the controller
\* passes keys on.  Nothing makes keys, strays or spurious interrupts come.
Fairness == WF_vars(Step) /\ WF_vars(Deliver) /\ WF_vars(Transmit)

Spec == Init /\ [][Next]_vars /\ Fairness

-----------------------------------------------------------------------------
(* Properties.                                                             *)

TypeOK ==
    /\ \A i \in DOMAIN frames : /\ frames[i].reg \in 0 .. Cells + W + H + Keys + Len(frames)
                               /\ frames[i].dot \in 1 .. Dots + 1
    /\ {iflag, routed} \subseteq BOOLEAN
    /\ irr \subseteq 0 .. 255 /\ isr \subseteq 0 .. 255
    /\ pressed \in 0 .. Keys /\ port \in 0 .. Keys
    /\ buffer \in Seq(1 .. Keys) /\ Len(buffer) < Capacity
    /\ x \in 0 .. W /\ y \in 0 .. H + Len(frames)
    /\ left \in 0 .. Lines

InHand == Cardinality({i \in DOMAIN frames : frames[i].pc = "store"})
ReadSoFar == pressed - Len(wire) - (IF port = 0 THEN 0 ELSE 1)

\* Keys are stored once each and in the order in which they were pressed, and
\* only a full buffer drops one, although handlers interrupt each other: the
\* next keyboard interrupt waits until this handler signals its end, and that
\* is after the key is stored.
KeysInOrder ==
    LET n == ReadSoFar - InHand
    IN  buffer = [i \in 1 .. (IF n < Capacity THEN n ELSE Capacity - 1) |-> i]

\* write_character draws inside the double buffer, wherever it is interrupted,
\* between its checks of the cursor and its use of it or between the pixels of
\* a glyph, by handlers that print too.
PixelsInside == Top.pc = "pixel" => Top.reg < Cells

\* Together: cursor, buffers and drawing stay within their bounds.
DrawsInside == TypeOK /\ PixelsInside

Glyph(g) == {<<g, d>> : d \in 1 .. Dots}

\* The glyphs 1 to n are in the first `end` cells, each of them whole and alone
\* in a cell, in the order in which they are read.
Legible(b, n, end) ==
    LET seen == {c \in 0 .. Cells - 1 : c < end}
    IN  /\ \A g \in 1 .. n : \E c \in seen : b[c] = Glyph(g)
        /\ \A g, h \in 1 .. n : \A c, e \in seen :
              g < h /\ b[c] = Glyph(g) /\ b[e] = Glyph(h) => c < e

\* A line that kernel_stage2 has printed is legible on the screen, whatever
\* handlers printed meanwhile between its glyphs, if it was printed on blank
\* ground, no handler came in where write_character is exposed, and the screen
\* was not scrolled.  (A newline in the last row scrolls before debug_putchar
\* flips, and the line is lost.)
LineShown ==
    (Len(frames) = 1 /\ Top.who = "main" /\ Top.pc = "idle" /\ left < Lines /\ ~env.spoilt)
        => Legible(screen, LineLen, Cells)

Dead == \E i \in DOMAIN frames : frames[i].pc \in {"hlt", "past", "stop"}

\* The keyboard's handler always catches up with the keys pressed, so that each
\* of them is read in the end, except that: the kernel has stopped; not_implemented_handler left an interrupt in service (if it came
\* inside the keyboard's handler, that handler's end of interrupt ends it and
\* the keyboard's own stays); or a key pressed before the keyboard was routed
\* left the controller's line high.
KeysRead ==
    []<>(ReadSoFar = pressed \/ Dead \/ env.unended \/ env.lost)

\* kernel_stage2 gets through its output, however interrupts nest on it.
MainFinishes == <>(Dead \/ (Len(frames) = 1 /\ Top.pc = "idle" /\ left = 0))

\* After an exception no context below the handler runs again: its wrapper
\* ends in hlt and not in iretq.  An interrupt that wakes the hlt returns to
\* what follows the wrapper in memory ("past"); of that nothing is said.
FaultIsFinal ==
    [][\A i \in DOMAIN frames : frames[i].who = "exception" =>
            /\ i \in DOMAIN frames'
            /\ \A j \in 1 .. i - 1 : frames'[j] = frames[j]]_vars
=============================================================================
