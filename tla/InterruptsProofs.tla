-------------------------- MODULE InterruptsProofs --------------------------
(***************************************************************************)
(* Proofs about Interrupts, for every screen, every number of keys and     *)
(* lines and every set of stray vectors.  The stack of contexts grows      *)
(* without bound, so nothing here is about a fixed depth: what a context   *)
(* that is interrupted needs is carried by its own frame, and everything   *)
(* else is said of the context on top.                                     *)
(***************************************************************************)
EXTENDS Interrupts, FiniteSetTheorems, SequenceTheorems, TLAPS

-----------------------------------------------------------------------------
(* The invariant.                                                          *)

Handlers == {"keyboard", "timer", "not_implemented", "exception"}

\* Inside write_character.
Drawing == {"drawx", "drawy", "pixel"}
Advancing == {"xload", "xstore"}
Busy == {"yload", "ystore", "xzero", "clamp", "scroll", "flip"} \cup Drawing \cup Advancing

Pcs == {"apic", "route", "sti", "idle", "put", "in", "store", "eoi", "iret",
        "hlt", "past", "stop"} \cup Busy

Frame == [who : {"main", "panic"} \cup Handlers, pc : Pcs, text : Seq(Nat), reg : Nat,
          dot : Nat]

\* Which context may be where: an exception never gets to an iretq.
Placed(f) ==
    /\ f.pc \in {"apic", "route", "sti", "idle"} => f.who = "main"
    /\ f.pc = "stop" => f.who = "panic"
    /\ f.pc \in {"in", "store"} => f.who = "keyboard"
    /\ f.pc = "eoi" => f.who \in {"keyboard", "timer"}
    /\ f.pc = "iret" => f.who \in {"keyboard", "timer", "not_implemented"}
    /\ f.pc \in {"hlt", "past"} => f.who = "exception"

\* What is left to print ends in a newline, and where the code is inside
\* write_character fits the character it is at.
Printing(f) ==
    /\ f.text # <<>> => f.text[Len(f.text)] = Newline
    /\ f.pc \in Busy \cup {"in", "store"} => f.text # <<>>
    /\ f.pc \in {"xzero", "flip"} => Head(f.text) = Newline
    /\ f.pc \in Drawing \cup Advancing => Head(f.text) # Newline

\* The pixel that is next fits the place in the loop.
Fits(p, d) ==
    /\ d \in 1 .. Dots + 1
    /\ p \in Drawing => d <= Dots
    /\ p \in Advancing => d = Dots + 1
    /\ p \notin Drawing \cup Advancing => d = 1

\* A register that was loaded before an interrupt and is stored after it: the
\* row may be one too low for every context under this one.
Registers(i, f) ==
    /\ f.reg <= Cells + W + H + Keys + i
    /\ f.pc = "ystore" => f.reg <= H - 1 + (i - 1)
    /\ f.pc \in {"xstore", "drawy"} => f.reg + 1 <= W
    /\ f.pc = "pixel" => f.reg < Cells

\* The i-th context of the stack; main or its panic is the first.
Well(i, f) ==
    /\ (i = 1) <=> f.who \in {"main", "panic"}
    /\ Placed(f) /\ Printing(f) /\ Registers(i, f) /\ Fits(f.pc, f.dot)

Stack ==
    /\ frames \in Seq(Frame) /\ frames # <<>>
    /\ \A i \in 1 .. Len(frames) : Well(i, frames[i])

Vectors == StrayVectors \cup {KeyboardVector}

Buffers == [0 .. Cells - 1 -> SUBSET (Nat \X Nat)]

Rest ==
    /\ iflag \in BOOLEAN /\ routed \in BOOLEAN
    /\ irr \subseteq Vectors /\ isr \subseteq Vectors
    /\ left \in 0 .. Lines
    /\ env \in [odd : Nat, lost : BOOLEAN, unended : BOOLEAN, spoilt : BOOLEAN]
    /\ cells \in Buffers /\ screen \in Buffers

Reading == {i \in 1 .. Len(frames) : frames[i].pc = "in"}
Storing == {i \in 1 .. Len(frames) : frames[i].pc = "store"}

\* Handlers that have still to signal their end.
Live == {i \in 1 .. Len(frames) : frames[i].who \in {"keyboard", "timer"} /\ frames[i].pc # "iret"}

\* One such handler at most, with a vector in service all the while; an
\* interrupt of the keyboard that waits, or a handler about to read, has a
\* key in the port to itself.
Service ==
    /\ \A i, j \in Live : i = j
    /\ Live # {} => isr # {}
    /\ port = 0 => KeyboardVector \notin irr /\ Reading = {}
    /\ KeyboardVector \in irr => Reading = {}

\* The keys are 1, 2, ...: stored or dropped, in a handler's hand, in the
\* port, on the wire, in this order.
Transit ==
    /\ pressed \in 0 .. Keys
    /\ wire \in Seq(Nat) /\ Len(wire) <= pressed
    /\ \A i \in 1 .. Len(wire) : wire[i] = pressed - Len(wire) + i
    /\ port \in 0 .. Keys
    /\ port # 0 => port = pressed - Len(wire)
    /\ \A i \in Storing : frames[i].reg = ReadSoFar /\ ReadSoFar >= 1

\* Where the cursor may be depends on what the running context does with it:
\* a handler that returns leaves it at the start of a row of the screen.
Cursor ==
    /\ x \in 0 .. W /\ y \in 0 .. H - 1 + Len(frames)
    /\ Top.pc \in {"put", "yload", "ystore", "in", "store"} => y <= H - 1 + (Len(frames) - 1)
    /\ Top.pc \notin {"put", "yload", "ystore", "xzero", "clamp", "in", "store"} => y <= H - 1
    /\ Top.pc = "put" /\ Top.text = <<>> => x = 0 /\ y <= H - 1
    /\ Top.pc \in {"eoi", "iret", "flip"} => x = 0
    /\ Top.pc \in {"clamp", "scroll"} /\ Char = Newline => x = 0
    /\ Top.pc \in {"yload", "ystore", "clamp", "scroll", "xload"} \cup Drawing /\ Char # Newline
         => x + 1 <= W

\* The text of main is the rest of its line.
Line ==
    /\ frames[1].pc \in {"apic", "route", "sti"} => left = Lines /\ frames[1].text = <<>>
    /\ frames[1].who = "main" /\ left < Lines =>
        /\ Len(frames[1].text) <= LineLen + 1
        /\ \A i \in 1 .. Len(frames[1].text) :
             frames[1].text[i] = IF i = Len(frames[1].text) THEN Newline
                                 ELSE LineLen + 1 - Len(frames[1].text) + i
    /\ frames[1].who = "main" /\ left = Lines => frames[1].text = <<>> /\ frames[1].pc \notin Busy \cup {"put"}
    /\ frames[1].pc = "idle" => frames[1].text = <<>>

IInv == Stack /\ Rest /\ Service /\ Transit /\ KeysInOrder /\ Cursor /\ Line

\* What the screen, the text and the buffer measure.
LEMMA Sizes ==
    /\ W \in Nat /\ W >= 1 /\ H \in Nat /\ H >= 1 /\ LineLen \in Nat /\ Lines \in Nat
    /\ Keys \in Nat /\ Capacity \in Nat /\ Capacity >= 1
    /\ Dots \in Nat /\ Dots >= 1 /\ Cells \in Nat
<1>1. W \in Nat /\ H \in Nat
  BY ScreenAssumption
<1>2. Cells \in Nat
  BY <1>1 DEF Cells
<1>3. QED BY <1>2, ScreenAssumption

\* Cells are numbered row by row.
LEMMA Offsets ==
    ASSUME NEW c \in 0 .. W, NEW r \in Nat
    PROVE  /\ Offset(c, r) \in Nat
           /\ Offset(c + 1, r) = Offset(c, r) + 1
           /\ Offset(0, r) <= Offset(c, r) /\ Offset(c, r) <= Offset(0, r + 1)
           /\ c = W => Offset(c, r) = Offset(0, r + 1)
           /\ c + 1 <= W /\ r <= H - 1 => Offset(c, r) < Cells
<1>1. W \in Nat /\ H \in Nat
  BY Sizes
<1>2. W * r \in Nat /\ W * (r + 1) = W * r + W
  BY <1>1
<1>3. r <= H - 1 => W * (r + 1) <= W * H
  BY <1>1
<1> DEFINE a == W * r
           b == W * (r + 1)
           e == W * H
<1>4. /\ Offset(c, r) = c + a /\ Offset(c + 1, r) = (c + 1) + a
      /\ Offset(0, r) = 0 + a /\ Offset(0, r + 1) = 0 + b /\ Cells = e
  BY DEF Offset, Cells
<1>5. a \in Nat /\ b = a + W /\ e \in Nat /\ (r <= H - 1 => b <= e)
  BY <1>1, <1>2, <1>3
<1> HIDE DEF a, b, e
<1>6. QED BY <1>1, <1>4, <1>5

-----------------------------------------------------------------------------
(* What a step does to the stack.                                          *)

\* The context on top goes on as w, at p with t left to print, r in its
\* register and d the next pixel.
Runs(w, p, t, r, d) ==
    /\ frames' \in Seq(Frame) /\ Len(frames') = Len(frames) /\ frames' # <<>>
    /\ \A i \in 1 .. Len(frames) - 1 : frames'[i] = frames[i]
    /\ Top' \in Frame /\ frames'[Len(frames)] = Top'
    /\ Top'.who = w /\ Top'.pc = p /\ Top'.text = t /\ Top'.reg = r /\ Top'.dot = d

\* A handler is entered.
Enters(who) ==
    /\ frames' \in Seq(Frame) /\ Len(frames') = Len(frames) + 1 /\ frames' # <<>>
    /\ \A i \in 1 .. Len(frames) - 1 : frames'[i] = frames[i]
    /\ LET f == frames'[Len(frames)]
       IN  /\ f \in Frame /\ f.who = Top.who /\ f.text = Top.text /\ f.reg = Top.reg
           /\ f.dot = Top.dot
           /\ f.pc = Top.pc \/ (f.pc = "past" /\ Top.pc = "hlt")
    /\ frames'[Len(frames) + 1] = Top' /\ Top' = Context(who)

\* The stack is a sequence of frames with the running context at its end.
LEMMA TopType ==
    ASSUME Stack
    PROVE  /\ Len(frames) \in Nat /\ Len(frames) >= 1 /\ frames \in Seq(Frame)
           /\ Top \in Frame /\ frames[Len(frames)] = Top
           /\ (Len(frames) = 1) <=> Top.who \in {"main", "panic"}
           /\ Placed(Top) /\ Printing(Top) /\ Registers(Len(frames), Top)
           /\ Fits(Top.pc, Top.dot)
           /\ Top.text \in Seq(Nat) /\ Top.reg \in Nat /\ Top.dot \in Nat
<1>1. Len(frames) \in Nat /\ Len(frames) >= 1 /\ frames \in Seq(Frame)
  BY DEF Stack
<1>2. frames[Len(frames)] \in Frame
  BY <1>1
<1>3. frames[Len(frames)] = Top /\ Len(frames) \in 1 .. Len(frames)
  BY <1>1 DEF Top
<1>4. /\ (Len(frames) = 1) <=> Top.who \in {"main", "panic"}
      /\ Placed(Top) /\ Printing(Top) /\ Registers(Len(frames), Top) /\ Fits(Top.pc, Top.dot)
  BY <1>3 DEF Stack, Well
<1>5. Top \in Frame
  BY <1>2, <1>3
<1>6. Top.text \in Seq(Nat) /\ Top.reg \in Nat /\ Top.dot \in Nat
  BY <1>5 DEF Frame
<1>7. QED BY <1>1, <1>3, <1>4, <1>5, <1>6

\* SetTop with a changed copy of the running context.
LEMMA SetTopRuns ==
    ASSUME Stack, NEW w, NEW p, NEW t, NEW r, NEW d, NEW f \in Frame,
           f.who = w, f.pc = p, f.text = t, f.reg = r, f.dot = d, SetTop(f)
    PROVE  Runs(w, p, t, r, d)
<1>1. Len(frames) \in Nat /\ Len(frames) >= 1 /\ frames \in Seq(Frame) /\ Top \in Frame
  BY TopType
<1>2. f \in Frame /\ f.who = w /\ f.pc = p /\ f.text = t /\ f.reg = r /\ f.dot = d
  OBVIOUS
<1>3. frames' = [frames EXCEPT ![Len(frames)] = f]
  BY DEF SetTop
<1>4. /\ frames' \in Seq(Frame) /\ Len(frames') = Len(frames)
      /\ \A i \in 1 .. Len(frames) : frames'[i] = IF i = Len(frames) THEN f ELSE frames[i]
  <2>1. Len(frames) \in 1 .. Len(frames)
    BY <1>1
  <2>2. QED BY <1>1, <1>2, <1>3, <2>1, ExceptSeq
<1>5. frames'[Len(frames)] = f /\ \A i \in 1 .. Len(frames) - 1 : frames'[i] = frames[i]
  <2>1. Len(frames) \in 1 .. Len(frames)
    BY <1>1
  <2>2. \A i \in 1 .. Len(frames) - 1 : i \in 1 .. Len(frames) /\ i # Len(frames)
    BY <1>1
  <2>3. QED BY <1>4, <2>1, <2>2
<1>6. Top' = f /\ frames' # <<>>
  BY <1>1, <1>4, <1>5 DEF Top
<1>7. QED BY <1>2, <1>4, <1>5, <1>6 DEF Runs

\* The forms of SetTop that the actions use.
LEMMA GotoRuns ==
    ASSUME Stack, NEW p \in Pcs, Goto(p)
    PROVE  Runs(Top.who, p, Top.text, Top.reg, Top.dot)
<1>1. Top \in Frame /\ Top.text \in Seq(Nat) /\ Top.reg \in Nat /\ Top.dot \in Nat
  BY TopType
<1> DEFINE f == [Top EXCEPT !.pc = p]
<1>2. f \in Frame /\ f.who = Top.who /\ f.pc = p /\ f.text = Top.text /\ f.reg = Top.reg
      /\ f.dot = Top.dot
  BY <1>1 DEF Frame
<1>3. SetTop(f)
  BY DEF Goto
<1> HIDE DEF f
<1>4. QED BY <1>1, <1>2, <1>3, SetTopRuns

\* A load into the register of the context on top.
LEMMA LoadRuns ==
    ASSUME Stack, NEW p \in Pcs, NEW r \in Nat, SetTop([Top EXCEPT !.pc = p, !.reg = r])
    PROVE  Runs(Top.who, p, Top.text, r, Top.dot)
<1>1. Top \in Frame /\ Top.text \in Seq(Nat) /\ Top.dot \in Nat
  BY TopType
<1> DEFINE f == [Top EXCEPT !.pc = p, !.reg = r]
<1>2. f \in Frame /\ f.who = Top.who /\ f.pc = p /\ f.text = Top.text /\ f.reg = r
      /\ f.dot = Top.dot
  BY <1>1 DEF Frame
<1> HIDE DEF f
<1>3. QED BY <1>1, <1>2, SetTopRuns DEF f

\* The context on top goes on with another text.
LEMMA TextRuns ==
    ASSUME Stack, NEW p \in Pcs, NEW t \in Seq(Nat), SetTop([Top EXCEPT !.pc = p, !.text = t])
    PROVE  Runs(Top.who, p, t, Top.reg, Top.dot)
<1>1. Top \in Frame /\ Top.reg \in Nat /\ Top.dot \in Nat
  BY TopType
<1> DEFINE f == [Top EXCEPT !.pc = p, !.text = t]
<1>2. f \in Frame /\ f.who = Top.who /\ f.pc = p /\ f.text = t /\ f.reg = Top.reg /\ f.dot = Top.dot
  BY <1>1 DEF Frame
<1> HIDE DEF f
<1>3. QED BY <1>1, <1>2, SetTopRuns DEF f

\* A message is its glyphs and a newline.
LEMMA MessageType ==
    ASSUME NEW glyphs \in Nat
    PROVE  /\ Message(glyphs) \in Seq(Nat) /\ Len(Message(glyphs)) = glyphs + 1
           /\ \A i \in 1 .. glyphs + 1 :
                Message(glyphs)[i] = IF i = glyphs + 1 THEN Newline ELSE i
<1> DEFINE g == [i \in 1 .. glyphs |-> i]
<1>1. g \in Seq(Nat) /\ Len(g) = glyphs /\ \A i \in 1 .. glyphs : g[i] = i
  OBVIOUS
<1> HIDE DEF g
<1>2. Message(glyphs) = Append(g, Newline) /\ Newline \in Nat
  BY DEF Message, Newline, g
<1>3. QED BY <1>1, <1>2, AppendProperties

\* A handler's context: placed at its first instruction, with lines to print.
LEMMA ContextType ==
    ASSUME NEW who \in Handlers
    PROVE  LET f == Context(who)
           IN  /\ f \in Frame /\ f.who = who /\ f.reg = 0 /\ f.dot = 1
               /\ f.pc = IF who = "keyboard" THEN "in" ELSE "put"
               /\ f.text # <<>> /\ f.text[Len(f.text)] = Newline
<1> DEFINE m == Message(1)
           two == m \o m
<1>1. m \in Seq(Nat) /\ Len(m) = 2 /\ m[2] = Newline
  <2>1. 1 \in Nat /\ 1 + 1 = 2 /\ 2 \in 1 .. 1 + 1
    OBVIOUS
  <2>2. QED BY <2>1, MessageType
<1> HIDE DEF m
<1>2. two \in Seq(Nat) /\ Len(two) = 4 /\ two[4] = Newline
  <2>1. two \in Seq(Nat) /\ Len(two) = Len(m) + Len(m)
        /\ \A i \in 1 .. Len(m) + Len(m) : two[i] = IF i <= Len(m) THEN m[i] ELSE m[i - Len(m)]
    <3>1. m \in Seq(Nat)
      BY <1>1
    <3>2. QED BY <3>1
  <2>2. QED BY <1>1, <2>1
<1> HIDE DEF two
<1>3. Context(who) = [who |-> who, reg |-> 0, dot |-> 1, pc |-> IF who = "keyboard" THEN "in" ELSE "put",
                      text |-> IF who = "not_implemented" THEN two ELSE m]
  BY DEF Context, m, two
<1>4. two # <<>> /\ two[Len(two)] = Newline /\ m # <<>> /\ m[Len(m)] = Newline
  <2>1. two[Len(two)] = Newline /\ m[Len(m)] = Newline
    BY <1>1, <1>2
  <2>2. Len(two) # 0 /\ Len(m) # 0
    BY <1>1, <1>2
  <2>3. QED BY <1>1, <1>2, <2>1, <2>2, EmptySeq
<1> DEFINE f == Context(who)
<1>5. /\ f.who = who /\ f.reg = 0 /\ f.dot = 1 /\ f.pc = IF who = "keyboard" THEN "in" ELSE "put"
      /\ f.text = IF who = "not_implemented" THEN two ELSE m
  BY <1>3
<1>6. f.text \in Seq(Nat) /\ f.text # <<>> /\ f.text[Len(f.text)] = Newline
  <2>1. CASE f.text = two
    BY <1>2, <1>4, <2>1, Zenon
  <2>2. CASE f.text = m
    BY <1>1, <1>4, <2>2, Zenon
  <2>3. QED BY <1>5, <2>1, <2>2
<1>7. f \in Frame
  <2>1. f = [who |-> f.who, reg |-> f.reg, dot |-> f.dot, pc |-> f.pc, text |-> f.text]
    BY <1>3
  <2>2. f.who \in {"main", "panic"} \cup Handlers /\ f.pc \in Pcs /\ f.reg \in Nat /\ f.dot \in Nat
    BY <1>5 DEF Pcs
  <2> HIDE DEF f
  <2>3. QED BY <1>6, <2>1, <2>2 DEF Frame
<1>8. QED BY <1>5, <1>6, <1>7

\* Append of a handler's context, the interrupted one waking from its hlt.
LEMMA EntersStack ==
    ASSUME Stack, NEW who \in Handlers, NEW g \in Frame,
           g.who = Top.who, g.text = Top.text, g.reg = Top.reg, g.dot = Top.dot,
           g.pc = Top.pc \/ (g.pc = "past" /\ Top.pc = "hlt"),
           frames' = Append([frames EXCEPT ![Len(frames)] = g], Context(who))
    PROVE  Enters(who)
<1> DEFINE base == [frames EXCEPT ![Len(frames)] = g]
<1>1. Len(frames) \in Nat /\ Len(frames) >= 1 /\ frames \in Seq(Frame)
  BY TopType
<1>2. /\ base \in Seq(Frame) /\ Len(base) = Len(frames)
      /\ \A i \in 1 .. Len(frames) : base[i] = IF i = Len(frames) THEN g ELSE frames[i]
  <2>1. Len(frames) \in 1 .. Len(frames)
    BY <1>1
  <2>2. QED BY <1>1, <2>1, ExceptSeq
<1>3. Context(who) \in Frame
  BY ContextType
<1> HIDE DEF base
<1>4. /\ frames' \in Seq(Frame) /\ Len(frames') = Len(frames) + 1
      /\ \A i \in 1 .. Len(frames) : frames'[i] = base[i]
      /\ frames'[Len(frames) + 1] = Context(who)
  <2>1. frames' = Append(base, Context(who))
    BY DEF base
  <2>2. QED BY <1>1, <1>2, <1>3, <2>1, AppendProperties
<1>5. frames'[Len(frames)] = g /\ \A i \in 1 .. Len(frames) - 1 : frames'[i] = frames[i]
  BY <1>1, <1>2, <1>4
<1>6. Top' = Context(who) /\ frames' # <<>>
  BY <1>1, <1>4 DEF Top
<1>7. QED BY <1>4, <1>5, <1>6 DEF Enters

\* Push of an interrupt enters its handler over the context on top.
LEMMA PushEnters ==
    ASSUME Stack, NEW who \in Handlers, Push(who)
    PROVE  Enters(who)
<1> DEFINE g == Interrupted(Top)
<1>1. Top \in Frame
  BY TopType
<1>2. /\ g \in Frame /\ g.who = Top.who /\ g.text = Top.text /\ g.reg = Top.reg
      /\ g.dot = Top.dot
      /\ g.pc = Top.pc \/ (g.pc = "past" /\ Top.pc = "hlt")
  BY <1>1 DEF Interrupted, Frame, Pcs
<1>3. frames' = Append([frames EXCEPT ![Len(frames)] = g], Context(who))
  BY DEF Push
<1> HIDE DEF g
<1>4. QED BY <1>2, <1>3, EntersStack
-----------------------------------------------------------------------------
(* The stack through a step.                                               *)

\* The context on top went on.
LEMMA StackRuns ==
    ASSUME Stack, NEW w, NEW p, NEW t, NEW r, NEW d, Runs(w, p, t, r, d), Well(Len(frames), Top')
    PROVE  Stack'
<1>1. Len(frames) \in Nat /\ Len(frames) >= 1
  BY TopType
<1>2. ASSUME NEW i \in 1 .. Len(frames) PROVE Well(i, frames'[i])
  <2>1. CASE i = Len(frames)
    BY <2>1 DEF Runs
  <2>2. CASE i # Len(frames)
    <3>1. i \in 1 .. Len(frames) - 1
      BY <1>1, <2>2
    <3>2. frames'[i] = frames[i]
      BY <3>1 DEF Runs
    <3>3. QED BY <3>2 DEF Stack
  <2>3. QED BY <2>1, <2>2
<1>3. QED BY <1>2 DEF Stack, Runs

\* A handler was entered.
LEMMA StackEnters ==
    ASSUME Stack, NEW who \in Handlers, Enters(who)
    PROVE  Stack'
<1>1. Len(frames) \in Nat /\ Len(frames) >= 1 /\ Well(Len(frames), Top)
  BY TopType DEF Well
<1>2. ASSUME NEW i \in 1 .. Len(frames) + 1 PROVE Well(i, frames'[i])
  <2>1. CASE i = Len(frames) + 1
    <3> DEFINE f == Context(who)
    <3>1. /\ f.who = who /\ f.reg = 0 /\ f.dot = 1 /\ f.pc = IF who = "keyboard" THEN "in" ELSE "put"
          /\ f.text # <<>> /\ f.text[Len(f.text)] = Newline
      BY ContextType
    <3>2. frames'[i] = f
      BY <2>1 DEF Enters
    <3> HIDE DEF f
    <3>3. Placed(f) /\ Printing(f) /\ Fits(f.pc, f.dot)
      BY <3>1, Sizes DEF Placed, Printing, Fits, Busy, Drawing, Advancing
    <3>4. Registers(i, f)
      BY <1>1, <2>1, <3>1, Sizes DEF Registers
    <3>5. (i = 1) <=> f.who \in {"main", "panic"}
      BY <1>1, <2>1, <3>1 DEF Handlers
    <3>6. QED BY <3>2, <3>3, <3>4, <3>5 DEF Well
  <2>2. CASE i = Len(frames)
    <3> DEFINE g == frames'[Len(frames)]
    <3>1. /\ g.who = Top.who /\ g.text = Top.text /\ g.reg = Top.reg /\ g.dot = Top.dot
          /\ g.pc = Top.pc \/ (g.pc = "past" /\ Top.pc = "hlt")
      BY DEF Enters
    <3> HIDE DEF g
    <3>2. Placed(g) /\ Printing(g) /\ Registers(i, g) /\ Fits(g.pc, g.dot)
      BY <1>1, <2>2, <3>1 DEF Well, Placed, Printing, Registers, Fits, Busy, Drawing, Advancing
    <3>3. QED BY <1>1, <2>2, <3>1, <3>2 DEF Well, g
  <2>3. CASE i \in 1 .. Len(frames) - 1
    <3>1. frames'[i] = frames[i]
      BY <2>3 DEF Enters
    <3>2. QED BY <1>1, <2>3, <3>1 DEF Stack
  <2>4. QED BY <1>1, <2>1, <2>2, <2>3
<1>3. QED BY <1>2 DEF Stack, Enters

\* A handler returned.
LEMMA StackReturns ==
    ASSUME Stack, ReturnFromInterrupt
    PROVE  /\ Stack' /\ Len(frames) >= 2 /\ Len(frames') = Len(frames) - 1
           /\ \A i \in 1 .. Len(frames) - 1 : frames'[i] = frames[i]
<1>1. Len(frames) \in Nat /\ frames \in Seq(Frame) /\ Len(frames) >= 2
  <2>1. Top.pc = "iret"
    BY DEF ReturnFromInterrupt
  <2>2. Len(frames) \in Nat /\ Len(frames) >= 1
    BY TopType
  <2>3. Top.who \in {"keyboard", "timer", "not_implemented"}
    BY <2>1, TopType DEF Placed
  <2>4. Top.who \notin {"main", "panic"}
    BY <2>3
  <2>5. Len(frames) # 1
    BY <2>4, TopType
  <2>6. Len(frames) \in Nat /\ Len(frames) >= 2
    BY <2>2, <2>5
  <2>7. QED BY <2>6, TopType
<1>2. frames' = SubSeq(frames, 1, Len(frames) - 1)
  BY DEF ReturnFromInterrupt
<1>3. /\ frames' \in Seq(Frame) /\ Len(frames') = Len(frames) - 1
      /\ \A i \in 1 .. Len(frames) - 1 : frames'[i] = frames[i]
  BY <1>1, <1>2
<1>4. frames' # <<>>
  BY <1>1, <1>3
<1>5. \A i \in 1 .. Len(frames) - 1 : i \in 1 .. Len(frames)
  BY <1>1
<1>6. QED BY <1>1, <1>3, <1>4, <1>5 DEF Stack
-----------------------------------------------------------------------------
(* Keys.                                                                   *)

\* Which handlers are where, after the context on top went on.
LEMMA RolesRun ==
    ASSUME Stack, NEW w, NEW p, NEW t, NEW r, NEW d, Runs(w, p, t, r, d)
    PROVE  /\ Reading' = (Reading \ {Len(frames)}) \cup (IF p = "in" THEN {Len(frames)} ELSE {})
           /\ Storing' = (Storing \ {Len(frames)}) \cup (IF p = "store" THEN {Len(frames)} ELSE {})
           /\ Live' = (Live \ {Len(frames)})
                       \cup (IF w \in {"keyboard", "timer"} /\ p # "iret" THEN {Len(frames)} ELSE {})
           /\ \A i \in 1 .. Len(frames) - 1 : frames'[i] = frames[i]
<1> DEFINE n == Len(frames)
<1>1. n \in Nat /\ n >= 1 /\ Len(frames') = n
  BY TopType DEF Runs
<1>2. /\ \A i \in 1 .. n - 1 : frames'[i] = frames[i]
      /\ frames'[n] = Top' /\ Top'.who = w /\ Top'.pc = p
  BY DEF Runs
<1>3. Reading' = {i \in 1 .. n : frames'[i].pc = "in"}
  BY <1>1 DEF Reading
<1>4. Storing' = {i \in 1 .. n : frames'[i].pc = "store"}
  BY <1>1 DEF Storing
<1>5. Live' = {i \in 1 .. n : frames'[i].who \in {"keyboard", "timer"} /\ frames'[i].pc # "iret"}
  BY <1>1 DEF Live
<1>6. \A i \in 1 .. n : i # n => i \in 1 .. n - 1
  BY <1>1
<1>7. n \in 1 .. n /\ \A i \in 1 .. n - 1 : i \in 1 .. n /\ i # n
  BY <1>1
<1> HIDE DEF n
<1>8. Reading' = (Reading \ {n}) \cup (IF p = "in" THEN {n} ELSE {})
  <2>1. Reading = {i \in 1 .. n : frames[i].pc = "in"}
    BY DEF Reading, n
  <2>2. QED BY <1>2, <1>3, <1>6, <1>7, <2>1
<1>9. Storing' = (Storing \ {n}) \cup (IF p = "store" THEN {n} ELSE {})
  <2>1. Storing = {i \in 1 .. n : frames[i].pc = "store"}
    BY DEF Storing, n
  <2>2. QED BY <1>2, <1>4, <1>6, <1>7, <2>1
<1>10. Live' = (Live \ {n}) \cup (IF w \in {"keyboard", "timer"} /\ p # "iret" THEN {n} ELSE {})
  BY <1>2, <1>5, <1>6, <1>7 DEF Live, n
<1>11. QED BY <1>2, <1>8, <1>9, <1>10 DEF n

\* After a handler was entered.
LEMMA RolesEnter ==
    ASSUME Stack, NEW who \in Handlers, Enters(who)
    PROVE  /\ Reading' = Reading \cup (IF who = "keyboard" THEN {Len(frames) + 1} ELSE {})
           /\ Storing' = Storing
           /\ Live' = Live \cup (IF who \in {"keyboard", "timer"} THEN {Len(frames) + 1} ELSE {})
           /\ \A i \in Storing : frames'[i].reg = frames[i].reg
<1> DEFINE n == Len(frames)
<1>1. n \in Nat /\ n >= 1 /\ Len(frames') = n + 1 /\ frames[n] = Top
  BY TopType DEF Enters
<1>2. /\ \A i \in 1 .. n - 1 : frames'[i] = frames[i]
      /\ frames'[n].who = Top.who /\ frames'[n].reg = Top.reg
      /\ frames'[n].pc = Top.pc \/ (frames'[n].pc = "past" /\ Top.pc = "hlt")
      /\ frames'[n + 1] = Context(who)
  BY DEF Enters
<1>3. frames'[n + 1].who = who /\ frames'[n + 1].pc = IF who = "keyboard" THEN "in" ELSE "put"
  BY <1>2, ContextType
<1>4. \A i \in 1 .. n :
        /\ frames'[i].who = frames[i].who /\ frames'[i].reg = frames[i].reg
        /\ frames'[i].pc = frames[i].pc \/ (frames'[i].pc = "past" /\ frames[i].pc = "hlt")
  BY <1>1, <1>2
<1>5. Reading' = {i \in 1 .. n + 1 : frames'[i].pc = "in"}
  BY <1>1 DEF Reading
<1>6. Storing' = {i \in 1 .. n + 1 : frames'[i].pc = "store"}
  BY <1>1 DEF Storing
<1>7. Live' = {i \in 1 .. n + 1 : frames'[i].who \in {"keyboard", "timer"} /\ frames'[i].pc # "iret"}
  BY <1>1 DEF Live
<1>8. n + 1 \in 1 .. n + 1 /\ \A i \in 1 .. n + 1 : i # n + 1 <=> i \in 1 .. n
  BY <1>1
<1>9. \A i \in 1 .. n : i \in 1 .. n + 1 /\ i # n + 1
  BY <1>1
<1> HIDE DEF n
<1>10. Reading' = Reading \cup (IF who = "keyboard" THEN {n + 1} ELSE {})
  BY <1>3, <1>4, <1>5, <1>8, <1>9 DEF Reading, n
<1>11. Storing' = Storing
  BY <1>3, <1>4, <1>6, <1>8, <1>9 DEF Storing, n
<1>12. Live' = Live \cup (IF who \in {"keyboard", "timer"} THEN {n + 1} ELSE {})
  <2>1. Live = {i \in 1 .. n : frames[i].who \in {"keyboard", "timer"} /\ frames[i].pc # "iret"}
    BY DEF Live, n
  <2>2. ASSUME NEW i \in 1 .. n PROVE i \in Live' <=> i \in Live
    <3>1. frames'[i].who = frames[i].who /\ (frames'[i].pc = "iret" <=> frames[i].pc = "iret")
      <4>1. /\ frames'[i].who = frames[i].who
            /\ frames'[i].pc = frames[i].pc \/ (frames'[i].pc = "past" /\ frames[i].pc = "hlt")
        BY <1>4
      <4>2. QED BY <4>1
    <3>2. QED BY <1>7, <1>9, <2>1, <3>1
  <2>3. n + 1 \in Live' <=> who \in {"keyboard", "timer"}
    BY <1>3, <1>7, <1>8
  <2>4. Live \subseteq 1 .. n /\ Live' \subseteq 1 .. n + 1
    BY <1>7, <2>1
  <2>5. QED BY <1>8, <1>9, <2>2, <2>3, <2>4
<1>13. \A i \in Storing : frames'[i].reg = frames[i].reg
  BY <1>4 DEF Storing, n
<1>14. QED BY <1>10, <1>11, <1>12, <1>13 DEF n

\* After a handler returned.
LEMMA RolesReturn ==
    ASSUME Stack, ReturnFromInterrupt
    PROVE  /\ Reading' = Reading /\ Storing' = Storing /\ Live' = Live
           /\ \A i \in Storing : frames'[i].reg = frames[i].reg
<1> DEFINE n == Len(frames)
<1>1. /\ n \in Nat /\ n >= 2 /\ Len(frames') = n - 1 /\ frames[n].pc = "iret"
      /\ \A i \in 1 .. n - 1 : frames'[i] = frames[i]
  BY StackReturns, TopType DEF ReturnFromInterrupt
<1>2. \A i \in 1 .. n : i # n <=> i \in 1 .. n - 1
  BY <1>1
<1>3. \A i \in 1 .. n - 1 : i \in 1 .. n
  BY <1>1
<1>4. /\ Reading' = {i \in 1 .. n - 1 : frames'[i].pc = "in"}
      /\ Storing' = {i \in 1 .. n - 1 : frames'[i].pc = "store"}
      /\ Live' = {i \in 1 .. n - 1 : frames'[i].who \in {"keyboard", "timer"} /\ frames'[i].pc # "iret"}
  BY <1>1 DEF Reading, Storing, Live
<1> HIDE DEF n
<1>5. Reading' = Reading /\ Storing' = Storing /\ Live' = Live
  <2>1. /\ Reading = {i \in 1 .. n : frames[i].pc = "in"}
        /\ Storing = {i \in 1 .. n : frames[i].pc = "store"}
        /\ Live = {i \in 1 .. n : frames[i].who \in {"keyboard", "timer"} /\ frames[i].pc # "iret"}
    BY DEF Reading, Storing, Live, n
  <2>2. Reading' = Reading
    BY <1>1, <1>2, <1>3, <1>4, <2>1
  <2>3. Storing' = Storing
    BY <1>1, <1>2, <1>3, <1>4, <2>1
  <2>4. Live' = Live
    BY <1>1, <1>2, <1>3, <1>4, <2>1
  <2>5. QED BY <2>2, <2>3, <2>4
<1>6. \A i \in Storing : frames'[i].reg = frames[i].reg
  BY <1>1, <1>2 DEF Storing, n
<1>7. QED BY <1>5, <1>6

\* InHand counts the handlers that hold a key.
LEMMA InHandStoring ==
    ASSUME Stack PROVE InHand = Cardinality(Storing)
<1>1. DOMAIN frames = 1 .. Len(frames)
  BY TopType
<1>2. QED BY <1>1 DEF InHand, Storing

\* A step that touches neither the keyboard nor a key in a handler's hand
\* keeps the keys in order.
LEMMA TransitKept ==
    ASSUME Stack, Stack', Transit, KeysInOrder,
           UNCHANGED <<pressed, wire, port, buffer>>, Storing' = Storing,
           \A i \in Storing : frames'[i].reg = frames[i].reg
    PROVE  Transit' /\ KeysInOrder'
<1>1. ReadSoFar' = ReadSoFar
  BY DEF ReadSoFar
<1>2. InHand' = InHand
  <2>1. InHand = Cardinality(Storing)
    BY InHandStoring
  <2>2. InHand' = Cardinality(Storing')
    <3>1. DOMAIN frames' = 1 .. Len(frames')
      BY DEF Stack
    <3>2. QED BY <3>1 DEF InHand, Storing
  <2>3. QED BY <2>1, <2>2
<1>3. Transit'
  BY <1>1 DEF Transit
<1>4. KeysInOrder'
  BY <1>1, <1>2 DEF KeysInOrder
<1>5. QED BY <1>3, <1>4
-----------------------------------------------------------------------------
(* Printing.                                                               *)

\* A context that goes on without being in a handler's first or last steps
\* leaves the keys alone.
LEMMA Written ==
    ASSUME IInv, NEW w, NEW p, NEW t, NEW r, NEW d, Runs(w, p, t, r, d), Well(Len(frames), Top'),
           w = Top.who \/ w = "panic",
           Top.pc \notin {"in", "store", "iret"}, p \notin {"in", "store"},
           UNCHANGED <<irr, isr, pressed, wire, port, buffer>>
    PROVE  Stack' /\ Service' /\ Transit' /\ KeysInOrder'
<1>1. Stack /\ Service /\ Transit /\ KeysInOrder
  BY DEF IInv
<1>2. Stack'
  BY <1>1, StackRuns
<1>3. frames[Len(frames)] = Top /\ Len(frames) \in 1 .. Len(frames)
  <2>1. Len(frames) \in Nat /\ Len(frames) >= 1 /\ frames[Len(frames)] = Top
    BY <1>1, TopType
  <2>2. QED BY <2>1
<1>4. Len(frames) \notin Reading /\ Len(frames) \notin Storing
  BY <1>3 DEF Reading, Storing
<1>5. w \in {"keyboard", "timer"} => Len(frames) \in Live
  BY <1>3 DEF Live
<1>6. Reading' = Reading /\ Storing' = Storing /\ Live' \subseteq Live
  <2>1. /\ Reading' = (Reading \ {Len(frames)}) \cup (IF p = "in" THEN {Len(frames)} ELSE {})
        /\ Storing' = (Storing \ {Len(frames)}) \cup (IF p = "store" THEN {Len(frames)} ELSE {})
        /\ Live' = (Live \ {Len(frames)})
                    \cup (IF w \in {"keyboard", "timer"} /\ p # "iret" THEN {Len(frames)} ELSE {})
    BY <1>1, RolesRun
  <2>2. Reading' = Reading
    BY <1>4, <2>1
  <2>3. Storing' = Storing
    BY <1>4, <2>1
  <2>4. Live' \subseteq Live
    BY <1>5, <2>1
  <2>5. QED BY <2>2, <2>3, <2>4
<1>7. \A i \in Storing : frames'[i].reg = frames[i].reg
  <2>1. \A i \in Storing : i \in 1 .. Len(frames) - 1
    <3>1. Len(frames) \in Nat
      BY <1>1, TopType
    <3>2. QED BY <1>4, <3>1 DEF Storing
  <2>2. QED BY <2>1 DEF Runs
<1>8. Service'
  BY <1>1, <1>6 DEF Service
<1>9. QED BY <1>1, <1>2, <1>6, <1>7, <1>8, TransitKept

\* The first frame is the running one, or is left as it is.
LEMMA FirstRuns ==
    ASSUME Stack, NEW w, NEW p, NEW t, NEW r, NEW d, Runs(w, p, t, r, d)
    PROVE  \/ Len(frames) = 1 /\ frames[1] = Top /\ frames'[1] = Top'
           \/ Len(frames) >= 2 /\ frames'[1] = frames[1]
<1>1. Len(frames) \in Nat /\ Len(frames) >= 1 /\ frames[Len(frames)] = Top
  BY TopType
<1>2. CASE Len(frames) = 1
  BY <1>1, <1>2 DEF Runs
<1>3. CASE Len(frames) # 1
  <2>1. 1 \in 1 .. Len(frames) - 1 /\ Len(frames) >= 2
    BY <1>1, <1>3, SMTT(20)
  <2>2. QED BY <2>1 DEF Runs
<1>4. QED BY <1>2, <1>3

\* A step that leaves the first context's place in its line alone.
LEMMA LineKept ==
    ASSUME Line, frames'[1].who = frames[1].who, frames'[1].text = frames[1].text,
           \/ frames'[1].pc = frames[1].pc
           \/ frames[1].pc \in Busy \cup {"put"} /\ frames'[1].pc \in Busy \cup {"put"},
           UNCHANGED left
    PROVE  Line'
BY DEF Line, Busy, Drawing, Advancing

\* Going on inside write_character, or to its start with the same text.
LEMMA WellRuns ==
    ASSUME Stack, NEW p \in Busy \cup {"put"}, NEW r \in Nat, NEW d \in Nat,
           Runs(Top.who, p, Top.text, r, d), Top.text # <<>>, p \in {"xzero", "flip"} => Char = Newline,
           p \in Drawing \cup Advancing => Char # Newline,
           r <= Cells + W + H + Keys + Len(frames), p = "ystore" => r <= H - 1 + (Len(frames) - 1),
           p \in {"xstore", "drawy"} => r + 1 <= W, p = "pixel" => r < Cells, Fits(p, d)
    PROVE  Well(Len(frames), Top')
<1>1. Top'.who = Top.who /\ Top'.pc = p /\ Top'.text = Top.text /\ Top'.reg = r /\ Top'.dot = d
  BY DEF Runs
<1>2. Placed(Top')
  BY <1>1 DEF Placed, Busy, Drawing, Advancing
<1>3. Printing(Top')
  BY <1>1, TopType DEF Printing, Busy, Char, Drawing, Advancing
<1>4. Registers(Len(frames), Top')
  BY <1>1 DEF Registers
<1>5. QED BY <1>1, <1>2, <1>3, <1>4, TopType DEF Well

\* Going on to the next character.
LEMMA WellTail ==
    ASSUME Stack, Runs(Top.who, "put", Tail(Top.text), Top.reg, 1), Top.text # <<>>
    PROVE  /\ Well(Len(frames), Top')
           /\ Tail(Top.text) \in Seq(Nat) /\ Len(Tail(Top.text)) = Len(Top.text) - 1
           /\ \A i \in 1 .. Len(Top.text) - 1 : Tail(Top.text)[i] = Top.text[i + 1]
<1>1. Top'.who = Top.who /\ Top'.pc = "put" /\ Top'.text = Tail(Top.text) /\ Top'.reg = Top.reg
      /\ Fits(Top'.pc, Top'.dot)
  BY Sizes DEF Runs, Fits, Drawing, Advancing
<1>2. Top.text \in Seq(Nat) /\ Top.text[Len(Top.text)] = Newline
  BY TopType DEF Printing
<1>3. /\ Tail(Top.text) \in Seq(Nat) /\ Len(Tail(Top.text)) = Len(Top.text) - 1
      /\ \A i \in 1 .. Len(Top.text) - 1 : Tail(Top.text)[i] = Top.text[i + 1]
  BY <1>2
<1>4. ASSUME Tail(Top.text) # <<>>
      PROVE  Tail(Top.text)[Len(Top.text) - 1] = Newline
  <2>1. Len(Tail(Top.text)) \in Nat \ {0} /\ Len(Top.text) \in Nat
    BY <1>2, <1>3, <1>4, EmptySeq
  <2>2. Len(Top.text) - 1 \in 1 .. Len(Top.text) - 1 /\ (Len(Top.text) - 1) + 1 = Len(Top.text)
    <3> DEFINE k == Len(Top.text)
               m == Len(Tail(Top.text))
    <3>1. m = k - 1 /\ m \in Nat \ {0} /\ k \in Nat
      BY <1>3, <2>1
    <3> HIDE DEF k, m
    <3>2. k - 1 \in 1 .. k - 1 /\ (k - 1) + 1 = k
      BY <3>1
    <3>3. QED BY <3>2 DEF k
  <2>3. QED BY <1>2, <1>3, <2>2
<1>5. Placed(Top')
  BY <1>1 DEF Placed
<1>6. Printing(Top')
  BY <1>1, <1>3, <1>4 DEF Printing, Busy, Drawing, Advancing
<1>7. Registers(Len(frames), Top')
  BY <1>1, TopType DEF Registers
<1>8. QED BY <1>1, <1>3, <1>5, <1>6, <1>7, TopType DEF Well

\* A step inside write_character that keeps the text: what is left to show is
\* that registers and cursor keep their bounds.
LEMMA Stays ==
    ASSUME IInv, NEW p \in Busy \cup {"put"}, NEW r \in Nat, NEW d \in Nat,
           Runs(Top.who, p, Top.text, r, d), Top.pc \in Busy \cup {"put"}, Top.text # <<>>,
           p \in {"xzero", "flip"} => Char = Newline,
           p \in Drawing \cup Advancing => Char # Newline,
           r <= Cells + W + H + Keys + Len(frames), p = "ystore" => r <= H - 1 + (Len(frames) - 1),
           p \in {"xstore", "drawy"} => r + 1 <= W, p = "pixel" => r < Cells, Fits(p, d),
           UNCHANGED <<iflag, apic, keyboard, left, screen>>,
           env' \in {env, [env EXCEPT !.spoilt = TRUE]}, cells' \in Buffers
    PROVE  /\ Stack' /\ Rest' /\ Service' /\ Transit' /\ KeysInOrder' /\ Line'
           /\ Len(frames') = Len(frames) /\ Top'.pc = p /\ Top'.text = Top.text
<1>1. Stack /\ Rest /\ Line
  BY DEF IInv
<1>2. Well(Len(frames), Top')
  BY <1>1, WellRuns
<1>3. Stack' /\ Service' /\ Transit' /\ KeysInOrder'
  BY <1>2, Written DEF Busy, apic, keyboard, Drawing, Advancing
<1>4. Rest'
  BY <1>1 DEF Rest, apic
<1>5. Line'
  <2>1. CASE Len(frames) = 1 /\ frames[1] = Top /\ frames'[1] = Top'
    BY <1>1, <1>4, <2>1, LineKept DEF Runs
  <2>2. CASE frames'[1] = frames[1]
    BY <1>1, <1>4, <2>2, LineKept
  <2>3. QED BY <1>1, <2>1, <2>2, FirstRuns
<1>6. QED BY <1>3, <1>4, <1>5 DEF Runs

\* A context that is not at a glyph's pixels: the next pixel is the first.
LEMMA Standing ==
    ASSUME IInv, Top.pc \notin Drawing \cup Advancing
    PROVE  /\ Top.dot = 1 /\ cells \in Buffers
           /\ \A p : p \notin Drawing \cup Advancing => Fits(p, Top.dot)
<1>1. Fits(Top.pc, Top.dot) /\ cells \in Buffers
  BY TopType DEF IInv, Rest
<1>2. Top.dot = 1
  BY <1>1 DEF Fits
<1>3. 1 \in 1 .. Dots + 1
  BY Sizes
<1>4. QED BY <1>1, <1>2, <1>3 DEF Fits

\* write_character starts a character.
LEMMA StartStep == ASSUME IInv, StartCharacter PROVE IInv'
<1>1. Stack /\ Cursor /\ Top.pc = "put" /\ Top.text # <<>>
  BY DEF IInv, StartCharacter, InText
<1>2. /\ Top.text \in Seq(Nat) /\ Top.reg \in Nat /\ Top.reg <= Cells + W + H + Keys + Len(frames)
      /\ Len(frames) \in Nat /\ Len(frames) >= 1
  BY <1>1, TopType DEF Registers
<1>3. UNCHANGED <<y, cells, screen, iflag, apic, keyboard, left, env>>
  BY DEF StartCharacter, Moves
<1>4. ASSUME Goto("yload"), (Char = Newline /\ x' = x) \/ (Char # Newline /\ x' = 0)
      PROVE  IInv'
  <2>1. Runs(Top.who, "yload", Top.text, Top.reg, Top.dot)
    BY <1>1, <1>4, GotoRuns DEF Pcs, Busy, Drawing, Advancing
  <2>2. /\ Stack' /\ Rest' /\ Service' /\ Transit' /\ KeysInOrder' /\ Line'
        /\ Len(frames') = Len(frames) /\ Top'.pc = "yload" /\ Top'.text = Top.text
    <3>1. Top.dot = 1 /\ cells' \in Buffers
      BY <1>1, <1>3, Standing DEF Drawing, Advancing
    <3>2. Fits("yload", Top.dot) /\ Fits("clamp", Top.dot)
      BY <3>1, Sizes DEF Fits, Drawing, Advancing
    <3>3. QED BY <1>1, <1>2, <1>3, <2>1, <3>1, <3>2, Stays DEF Busy, Drawing, Advancing
  <2>3. Cursor'
    <3>1. x \in 0 .. W /\ y \in 0 .. H - 1 + Len(frames) /\ y <= H - 1 + (Len(frames) - 1)
      BY <1>1 DEF Cursor
    <3>2. x' \in 0 .. W /\ (Char # Newline => x' + 1 <= W) /\ Char' = Char /\ y' = y
      BY <1>3, <1>4, <2>2, <3>1, Sizes DEF Char
    <3>3. QED BY <2>2, <3>1, <3>2 DEF Cursor, Drawing
  <2>4. QED BY <2>2, <2>3 DEF IInv
<1>5. ASSUME Goto("clamp"), Char # Newline, x + 1 <= W, x' = x
      PROVE  IInv'
  <2>1. Runs(Top.who, "clamp", Top.text, Top.reg, Top.dot)
    BY <1>1, <1>5, GotoRuns DEF Pcs, Busy, Drawing, Advancing
  <2>2. /\ Stack' /\ Rest' /\ Service' /\ Transit' /\ KeysInOrder' /\ Line'
        /\ Len(frames') = Len(frames) /\ Top'.pc = "clamp" /\ Top'.text = Top.text
    <3>1. Top.dot = 1 /\ cells' \in Buffers
      BY <1>1, <1>3, Standing DEF Drawing, Advancing
    <3>2. Fits("yload", Top.dot) /\ Fits("clamp", Top.dot)
      BY <3>1, Sizes DEF Fits, Drawing, Advancing
    <3>3. QED BY <1>1, <1>2, <1>3, <2>1, <3>1, <3>2, Stays DEF Busy, Drawing, Advancing
  <2>3. Cursor'
    BY <1>1, <1>2, <1>3, <1>5, <2>2, Sizes DEF Cursor, Char, Drawing
  <2>4. QED BY <2>2, <2>3 DEF IInv
<1>6. \/ Goto("yload") /\ Char = Newline /\ x' = x
      \/ Goto("yload") /\ Char # Newline /\ x' = 0
      \/ Goto("clamp") /\ Char # Newline /\ x + 1 <= W /\ x' = x
  BY DEF StartCharacter
<1>7. QED BY <1>4, <1>5, <1>6
\* Facts about a context inside write_character.
LEMMA Inside ==
    ASSUME IInv, Top.pc \in Busy
    PROVE  /\ Stack /\ Cursor /\ Top.text # <<>> /\ Top.text \in Seq(Nat)
           /\ Top.reg \in Nat /\ Top.reg <= Cells + W + H + Keys + Len(frames)
           /\ Len(frames) \in Nat /\ Len(frames) >= 1
           /\ x \in Nat /\ y \in Nat
<1>1. Stack /\ Cursor
  BY DEF IInv
<1>2. x \in Nat /\ y \in Nat
  BY <1>1 DEF Cursor, Drawing
<1>3. QED BY <1>1, <1>2, TopType DEF Registers, Printing

\* It loads the row, for the increment of a newline or of a full row.
LEMMA LoadYStep == ASSUME IInv, LoadY PROVE IInv'
<1>1. Top.pc = "yload" /\ UNCHANGED <<x, y, cells, screen, iflag, apic, keyboard, left, env>>
  BY DEF LoadY, Moves, console
<1>2. /\ Stack /\ Cursor /\ Top.text # <<>> /\ y \in Nat
      /\ Len(frames) \in Nat /\ Len(frames) >= 1
  BY <1>1, Inside DEF Busy, Drawing, Advancing
<1>3. Runs(Top.who, "ystore", Top.text, y, Top.dot)
  BY <1>2, LoadRuns DEF LoadY, Pcs, Busy, Drawing, Advancing
<1>4. y <= H - 1 + (Len(frames) - 1) /\ y <= Cells + W + H + Keys + Len(frames)
  BY <1>1, <1>2, Sizes DEF Cursor, Drawing
<1>5. /\ Stack' /\ Rest' /\ Service' /\ Transit' /\ KeysInOrder' /\ Line'
      /\ Len(frames') = Len(frames) /\ Top'.pc = "ystore" /\ Top'.text = Top.text
  BY <1>1, <1>2, <1>3, <1>4, Stays, Standing DEF Busy, Drawing, Advancing
<1>6. Cursor'
  BY <1>1, <1>2, <1>5 DEF Cursor, Char, Drawing
<1>7. QED BY <1>5, <1>6 DEF IInv

\* The row stored may be stale, by one for every context underneath.
LEMMA StoreYStep == ASSUME IInv, StoreY PROVE IInv'
<1> DEFINE p == IF Char = Newline THEN "xzero" ELSE "clamp"
<1>1. /\ Top.pc = "ystore" /\ UNCHANGED <<x, cells, screen, iflag, apic, keyboard, left, env>>
      /\ Goto(p) /\ y' = Top.reg + 1
  BY DEF StoreY, Moves
<1>2. /\ Stack /\ Cursor /\ Top.text # <<>> /\ Top.reg \in Nat
      /\ Top.reg <= Cells + W + H + Keys + Len(frames)
      /\ Len(frames) \in Nat /\ Len(frames) >= 1
  BY <1>1, Inside DEF Busy, Drawing, Advancing
<1>3. p \in {"xzero", "clamp"} /\ (p = "xzero" <=> Char = Newline)
  OBVIOUS
<1> HIDE DEF p
<1>4. p \in Pcs /\ p \in Busy \cup {"put"}
  BY <1>3 DEF Pcs, Busy, Drawing, Advancing
<1>5. Runs(Top.who, p, Top.text, Top.reg, Top.dot)
  BY <1>1, <1>2, <1>4, GotoRuns
<1>6. Top.reg <= H - 1 + (Len(frames) - 1)
  BY <1>1, <1>2, TopType DEF Registers
<1>7. /\ Stack' /\ Rest' /\ Service' /\ Transit' /\ KeysInOrder' /\ Line'
      /\ Len(frames') = Len(frames) /\ Top'.pc = p /\ Top'.text = Top.text
  BY <1>1, <1>2, <1>3, <1>4, <1>5, Stays, Standing DEF Busy, Drawing, Advancing
<1>8. Cursor'
  <2>1. /\ x \in 0 .. W /\ x' = x /\ (Char # Newline => x + 1 <= W) /\ Char' = Char
        /\ Top'.pc \in {"xzero", "clamp"} /\ (Top'.pc = "xzero" <=> Char = Newline)
    BY <1>1, <1>2, <1>3, <1>7 DEF Cursor, Char
  <2>2. y' \in 0 .. H - 1 + Len(frames)
    <3>1. y' = Top.reg + 1 /\ Top.reg \in Nat /\ Top.reg <= H - 1 + (Len(frames) - 1) /\ Len(frames) \in Nat
      BY <1>1, <1>2, <1>6
    <3>2. H \in Nat
      BY Sizes
    <3>3. QED BY <3>1, <3>2
  <2>3. QED BY <1>7, <2>1, <2>2 DEF Cursor, Drawing
<1>9. QED BY <1>7, <1>8 DEF IInv

\* A newline goes back to the first column.
LEMMA ZeroXStep == ASSUME IInv, ZeroX PROVE IInv'
<1>1. /\ Top.pc = "xzero" /\ UNCHANGED <<y, cells, screen, iflag, apic, keyboard, left, env>>
      /\ Goto("clamp") /\ x' = 0
  BY DEF ZeroX, Moves
<1>2. /\ Stack /\ Cursor /\ Top.text # <<>> /\ Top.reg \in Nat
      /\ Top.reg <= Cells + W + H + Keys + Len(frames)
      /\ Len(frames) \in Nat /\ Len(frames) >= 1
  BY <1>1, Inside DEF Busy, Drawing, Advancing
<1>3. Runs(Top.who, "clamp", Top.text, Top.reg, Top.dot)
  BY <1>1, <1>2, GotoRuns DEF Pcs, Busy, Drawing, Advancing
<1>4. /\ Stack' /\ Rest' /\ Service' /\ Transit' /\ KeysInOrder' /\ Line'
      /\ Len(frames') = Len(frames) /\ Top'.pc = "clamp" /\ Top'.text = Top.text
  BY <1>1, <1>2, <1>3, Stays, Standing DEF Busy, Drawing, Advancing
<1>5. Cursor'
  BY <1>1, <1>2, <1>4, Sizes DEF Cursor, Char, Drawing
<1>6. QED BY <1>4, <1>5 DEF IInv

\* The row is brought back to the last one before anything is drawn.
LEMMA ClampStep == ASSUME IInv, Clamp PROVE IInv'
<1> DEFINE p == IF y + 1 > H THEN "scroll" ELSE AfterClamp
<1>1. /\ Top.pc = "clamp" /\ UNCHANGED <<x, cells, screen, iflag, apic, keyboard, left>>
      /\ (y + 1 > H \/ y + 1 <= H) /\ env' \in {env, [env EXCEPT !.spoilt = TRUE]}
      /\ y + 1 > H => y' = H - 1 /\ Goto("scroll")
      /\ ~(y + 1 > H) => y' = y /\ Goto(AfterClamp)
  <2>1. Top.pc = "clamp"
    BY DEF Clamp
  <2>2. y \in Nat /\ H \in Nat
    BY <2>1, Inside, Sizes DEF Busy
  <2>3. y + 1 <= H <=> ~(y + 1 > H)
    BY <2>2
  <2>4. QED BY <2>1, <2>3 DEF Clamp
<1>2. /\ Stack /\ Cursor /\ Top.text # <<>> /\ Top.reg \in Nat /\ x \in Nat /\ y \in Nat
      /\ Top.reg <= Cells + W + H + Keys + Len(frames)
      /\ Len(frames) \in Nat /\ Len(frames) >= 1
  BY <1>1, Inside DEF Busy, Drawing, Advancing
<1>3. /\ p \in {"scroll", "flip", "drawx"} /\ Goto(p)
      /\ p = "flip" => Char = Newline
      /\ p = "drawx" => Char # Newline
  BY <1>1 DEF AfterClamp
<1>4. y' \in 0 .. H - 1
  <2>1. y' = H - 1 \/ (y' = y /\ ~(y + 1 > H))
    BY <1>1
  <2>2. QED BY <1>2, <2>1, Sizes
<1> HIDE DEF p
<1>5. p \in Pcs /\ p \in Busy \cup {"put"}
  BY <1>3 DEF Pcs, Busy, Drawing, Advancing
<1>6. Runs(Top.who, p, Top.text, Top.reg, Top.dot)
  BY <1>2, <1>3, <1>5, GotoRuns
<1>7. /\ Stack' /\ Rest' /\ Service' /\ Transit' /\ KeysInOrder' /\ Line'
      /\ Len(frames') = Len(frames) /\ Top'.pc = p /\ Top'.text = Top.text
  <2>1. Top.dot = 1 /\ cells \in Buffers
    BY <1>1, Standing DEF Drawing, Advancing
  <2>2. Fits(p, Top.dot)
    BY <1>3, <2>1, Sizes DEF Fits, Drawing, Advancing
  <2>3. QED BY <1>1, <1>2, <1>3, <1>5, <1>6, <2>1, <2>2, Stays DEF Busy, Drawing, Advancing
<1>8. Cursor'
  <2>1. (Char = Newline => x = 0) /\ (Char # Newline => x + 1 <= W) /\ x \in 0 .. W
    BY <1>1, <1>2 DEF Cursor, Drawing
  <2>2. y' \in 0 .. H - 1 + Len(frames) /\ y' <= H - 1
    BY <1>2, <1>4, Sizes
  <2>3. Char' = Char /\ x' = x
    BY <1>1, <1>7 DEF Char
  <2>4. QED BY <1>3, <1>7, <2>1, <2>2, <2>3 DEF Cursor, Drawing
<1>9. QED BY <1>7, <1>8 DEF IInv

\* The double buffer moves up by a row.
LEMMA ScrollStep == ASSUME IInv, Scroll PROVE IInv'
<1> DEFINE p == AfterClamp
<1>1. /\ Top.pc = "scroll" /\ UNCHANGED <<x, y, screen, iflag, apic, keyboard, left>>
      /\ Goto(p) /\ env' = env
  BY DEF Scroll, Moves
<1>2. /\ Stack /\ Cursor /\ Top.text # <<>> /\ Top.reg \in Nat /\ x \in Nat /\ y \in Nat
      /\ Top.reg <= Cells + W + H + Keys + Len(frames)
      /\ Len(frames) \in Nat /\ Len(frames) >= 1
  BY <1>1, Inside DEF Busy, Drawing, Advancing
<1>3. /\ p \in {"flip", "drawx"}
      /\ p = "flip" => Char = Newline
      /\ p = "drawx" => Char # Newline
  BY DEF AfterClamp
<1>4. cells' \in Buffers
  <2>1. screen \in Buffers
    BY DEF IInv, Rest
  <2>2. \A c \in 0 .. Cells - 1 : c + W < Cells => c + W \in 0 .. Cells - 1
    BY Sizes
  <2>3. \A c \in 0 .. Cells - 1 : (IF c + W < Cells THEN screen[c + W] ELSE {}) \in SUBSET (Nat \X Nat)
    BY <2>1, <2>2 DEF Buffers
  <2>4. QED BY <2>3 DEF Scroll, Buffers
<1> HIDE DEF p
<1>5. p \in Pcs /\ p \in Busy \cup {"put"}
  BY <1>3 DEF Pcs, Busy, Drawing, Advancing
<1>6. Runs(Top.who, p, Top.text, Top.reg, Top.dot)
  BY <1>1, <1>2, <1>5, GotoRuns
<1>7. /\ Stack' /\ Rest' /\ Service' /\ Transit' /\ KeysInOrder' /\ Line'
      /\ Len(frames') = Len(frames) /\ Top'.pc = p /\ Top'.text = Top.text
  <2>1. Top.dot = 1
    BY <1>1, Standing DEF Drawing, Advancing
  <2>2. Fits(p, Top.dot)
    BY <1>3, <2>1, Sizes DEF Fits, Drawing, Advancing
  <2>3. QED BY <1>1, <1>2, <1>3, <1>4, <1>5, <1>6, <2>1, <2>2, Stays DEF Busy, Drawing, Advancing
<1>8. Cursor'
  BY <1>1, <1>2, <1>3, <1>7, Sizes DEF Cursor, Char, Drawing
<1>9. QED BY <1>7, <1>8 DEF IInv

\* The column is loaded for its increment.
LEMMA LoadXStep == ASSUME IInv, LoadX PROVE IInv'
<1>1. Top.pc = "xload" /\ UNCHANGED <<x, y, cells, screen, iflag, apic, keyboard, left, env>>
  BY DEF LoadX, Moves, console
<1>2. /\ Stack /\ Cursor /\ Top.text # <<>> /\ x \in Nat
      /\ Len(frames) \in Nat /\ Len(frames) >= 1
  BY <1>1, Inside DEF Busy, Drawing, Advancing
<1>3. Runs(Top.who, "xstore", Top.text, x, Top.dot)
  BY <1>2, LoadRuns DEF LoadX, Pcs, Busy, Drawing, Advancing
<1>4. Char # Newline /\ Top.dot \in Nat /\ Fits("xstore", Top.dot) /\ cells' \in Buffers
  BY <1>1, <1>2, TopType DEF Printing, Char, Fits, Drawing, Advancing, Rest, IInv
<1>5. x + 1 <= W /\ x <= Cells + W + H + Keys + Len(frames)
  BY <1>1, <1>2, <1>4, Sizes DEF Cursor, Drawing
<1>6. /\ Stack' /\ Rest' /\ Service' /\ Transit' /\ KeysInOrder' /\ Line'
      /\ Len(frames') = Len(frames) /\ Top'.pc = "xstore" /\ Top'.text = Top.text
  BY <1>1, <1>2, <1>3, <1>4, <1>5, Stays DEF Busy, Drawing, Advancing
<1>7. Cursor'
  BY <1>1, <1>2, <1>6 DEF Cursor, Char, Drawing
<1>8. QED BY <1>6, <1>7 DEF IInv
\* Main printing: it is in a line, and the character it is at is the next
\* glyph of that line, or its newline.
LEMMA MainPrinting ==
    ASSUME IInv, Len(frames) = 1, Top.who = "main", Top.pc \in Busy \cup {"put"}, Top.text # <<>>
    PROVE  /\ frames[1] = Top /\ left \in 0 .. Lines /\ left < Lines
           /\ Len(Top.text) \in 1 .. LineLen + 1
           /\ Char = Newline => Len(Top.text) = 1
           /\ Char # Newline => Len(Top.text) >= 2 /\ Char = LineLen + 2 - Len(Top.text)
           /\ \A i \in 1 .. Len(Top.text) :
                Top.text[i] = IF i = Len(Top.text) THEN Newline ELSE LineLen + 1 - Len(Top.text) + i
<1>1. frames[1] = Top /\ Top.text \in Seq(Nat) /\ Printing(Top) /\ Line /\ left \in 0 .. Lines
  BY TopType DEF IInv, Rest
<1>2. left < Lines
  BY <1>1, Sizes DEF Line
<1>3. Len(Top.text) \in Nat \ {0} /\ Len(Top.text) <= LineLen + 1
  BY <1>1, <1>2, EmptySeq DEF Line
<1>4. \A i \in 1 .. Len(Top.text) :
        Top.text[i] = IF i = Len(Top.text) THEN Newline ELSE LineLen + 1 - Len(Top.text) + i
  BY <1>1, <1>2 DEF Line
<1> DEFINE k == Len(Top.text)
<1>5. Char = Top.text[1] /\ 1 \in 1 .. k
  BY <1>1, <1>3 DEF Char
<1>6. Char = IF 1 = k THEN Newline ELSE LineLen + 1 - k + 1
  BY <1>4, <1>5
<1>7. k \in Nat \ {0} /\ k <= LineLen + 1
  BY <1>3
<1> HIDE DEF k
<1>8. /\ Char = Newline => k = 1
      /\ Char # Newline => k >= 2 /\ Char = LineLen + 2 - k
  BY <1>6, <1>7, Sizes DEF Newline
<1>9. QED BY <1>1, <1>2, <1>3, <1>4, <1>8 DEF k

\* For every pixel the column is loaded,
LEMMA DrawXStep == ASSUME IInv, DrawX PROVE IInv'
<1>1. Top.pc = "drawx" /\ UNCHANGED <<x, y, cells, screen, iflag, apic, keyboard, left, env>>
  BY DEF DrawX, Moves, console
<1>2. /\ Stack /\ Cursor /\ Rest /\ Top.text # <<>> /\ x \in Nat
      /\ Len(frames) \in Nat /\ Len(frames) >= 1
  BY <1>1, Inside DEF Busy, Drawing, IInv
<1>3. Runs(Top.who, "drawy", Top.text, x, Top.dot)
  BY <1>2, LoadRuns DEF DrawX, Pcs, Busy, Drawing
<1>4. Char # Newline /\ Top.dot \in Nat /\ Fits("drawy", Top.dot) /\ cells' \in Buffers
  BY <1>1, <1>2, TopType DEF Printing, Char, Fits, Drawing, Advancing, Rest
<1>5. x + 1 <= W /\ x <= Cells + W + H + Keys + Len(frames)
  BY <1>1, <1>2, <1>4, Sizes DEF Cursor, Drawing
<1>6. /\ Stack' /\ Rest' /\ Service' /\ Transit' /\ KeysInOrder' /\ Line'
      /\ Len(frames') = Len(frames) /\ Top'.pc = "drawy" /\ Top'.text = Top.text
  BY <1>1, <1>2, <1>3, <1>4, <1>5, Stays DEF Busy, Drawing
<1>7. Cursor'
  BY <1>1, <1>2, <1>6 DEF Cursor, Char, Drawing
<1>8. QED BY <1>6, <1>7 DEF IInv

\* then the row: whatever came between the two, they make an offset inside.
LEMMA DrawYStep == ASSUME IInv, DrawY PROVE IInv'
<1> DEFINE r == Offset(Top.reg, y)
<1>1. /\ Top.pc = "drawy" /\ UNCHANGED <<x, y, cells, screen, iflag, apic, keyboard, left, env>>
      /\ SetTop([Top EXCEPT !.pc = "pixel", !.reg = r])
  BY DEF DrawY, Moves, console
<1>2. /\ Stack /\ Cursor /\ Rest /\ Top.text # <<>> /\ y \in Nat /\ Top.reg \in Nat
      /\ Len(frames) \in Nat /\ Len(frames) >= 1
  BY <1>1, Inside DEF Busy, Drawing, IInv
<1>3. Char # Newline /\ Top.dot \in Nat /\ Fits("pixel", Top.dot) /\ cells' \in Buffers
  BY <1>1, <1>2, TopType DEF Printing, Char, Fits, Drawing, Advancing, Rest
<1>4. Top.reg \in 0 .. W /\ Top.reg + 1 <= W /\ y <= H - 1
  <2>1. Top.reg + 1 <= W
    BY <1>1, <1>2, TopType DEF Registers
  <2>2. y <= H - 1
    BY <1>1, <1>2 DEF Cursor
  <2>3. QED BY <1>2, <2>1, <2>2, Sizes
<1>5. r \in Nat /\ r < Cells
  BY <1>2, <1>4, Offsets
<1> HIDE DEF r
<1>6. Runs(Top.who, "pixel", Top.text, r, Top.dot)
  BY <1>1, <1>2, <1>5, LoadRuns DEF Pcs, Busy, Drawing
<1>7. r <= Cells + W + H + Keys + Len(frames)
  BY <1>2, <1>5, Sizes
<1>8. /\ Stack' /\ Rest' /\ Service' /\ Transit' /\ KeysInOrder' /\ Line'
      /\ Len(frames') = Len(frames) /\ Top'.pc = "pixel" /\ Top'.text = Top.text
  BY <1>1, <1>2, <1>3, <1>5, <1>6, <1>7, Stays DEF Busy, Drawing
<1>9. Cursor'
  BY <1>1, <1>2, <1>8 DEF Cursor, Char, Drawing
<1>10. QED BY <1>8, <1>9 DEF IInv

\* The mark of a pixel.
LEMMA MarkType ==
    ASSUME Stack, Top.text # <<>>, NEW d \in Nat PROVE Mark(Top, d) \in Nat \X Nat
<1>1. Head(Top.text) \in Nat
  BY TopType
<1>2. QED BY <1>1 DEF Mark

\* The pixel is set at the offset in the register.
LEMMA PutPixelStep == ASSUME IInv, PutPixel PROVE IInv'
<1> DEFINE p == IF Top.dot = Dots THEN "xload" ELSE "drawx"
           f == [Top EXCEPT !.pc = p, !.dot = Top.dot + 1]
<1>1. /\ Top.pc = "pixel" /\ UNCHANGED <<x, y, screen, iflag, apic, keyboard, left, env>>
      /\ SetTop(f)
      /\ cells' = [cells EXCEPT ![Top.reg] = @ \cup {Mark(Top, Top.dot)}]
  BY DEF PutPixel, Moves
<1>2. /\ Stack /\ Cursor /\ Rest /\ Top.text # <<>> /\ Top.reg \in Nat /\ Top \in Frame
      /\ Top.reg <= Cells + W + H + Keys + Len(frames)
      /\ Len(frames) \in Nat /\ Len(frames) >= 1
  BY <1>1, Inside, TopType DEF Busy, Drawing, IInv
<1>3. Char # Newline /\ Top.dot \in 1 .. Dots /\ Top.reg \in 0 .. Cells - 1
  <2>1. Char # Newline /\ Top.dot \in 1 .. Dots
    BY <1>1, <1>2, TopType DEF Printing, Char, Fits, Drawing, Advancing
  <2>2. Top.reg < Cells
    BY <1>1, <1>2, TopType DEF Registers
  <2>3. QED BY <1>2, <2>1, <2>2, Sizes
<1>4. /\ p \in {"xload", "drawx"} /\ Top.dot \in Nat /\ Top.dot + 1 \in Nat
      /\ Fits(p, Top.dot + 1)
  BY <1>3, Sizes DEF Fits, Drawing, Advancing
<1>5. cells' \in Buffers
  <2>1. Mark(Top, Top.dot) \in Nat \X Nat
    BY <1>2, <1>4, MarkType
  <2>2. QED BY <1>1, <1>2, <1>3, <2>1 DEF Rest, Buffers
<1> HIDE DEF p
<1>6. /\ f \in Frame /\ f.who = Top.who /\ f.pc = p /\ f.text = Top.text /\ f.reg = Top.reg
      /\ f.dot = Top.dot + 1
  BY <1>2, <1>4 DEF Frame, Pcs, Busy, Drawing, Advancing
<1> HIDE DEF f
<1>7. Runs(Top.who, p, Top.text, Top.reg, Top.dot + 1)
  BY <1>1, <1>2, <1>6, SetTopRuns
<1>8. /\ Stack' /\ Rest' /\ Service' /\ Transit' /\ KeysInOrder' /\ Line'
      /\ Len(frames') = Len(frames) /\ Top'.pc = p /\ Top'.text = Top.text
  BY <1>1, <1>2, <1>3, <1>4, <1>5, <1>7, Stays DEF Busy, Drawing, Advancing
<1>9. Cursor'
  BY <1>1, <1>2, <1>3, <1>4, <1>8 DEF Cursor, Char, Drawing
<1>10. QED BY <1>8, <1>9 DEF IInv

\* The column is stored: every nested print has ended in a newline since.
LEMMA StoreXStep == ASSUME IInv, StoreX PROVE IInv'
<1>1. /\ Top.pc = "xstore" /\ UNCHANGED <<y, cells, screen, iflag, apic, keyboard, left, env>>
      /\ SetTop([Top EXCEPT !.pc = "put", !.text = Tail(@), !.dot = 1]) /\ x' = Top.reg + 1
  BY DEF StoreX, Moves
<1>2. /\ Stack /\ Cursor /\ Rest /\ Line /\ Top.text # <<>> /\ Top.reg \in Nat /\ y \in Nat
      /\ Len(frames) \in Nat /\ Len(frames) >= 1 /\ Top.text \in Seq(Nat)
  BY <1>1, Inside DEF Busy, Drawing, Advancing, IInv
<1>3. Runs(Top.who, "put", Tail(Top.text), Top.reg, 1)
  <2> DEFINE f == [Top EXCEPT !.pc = "put", !.text = Tail(Top.text), !.dot = 1]
  <2>1. Tail(Top.text) \in Seq(Nat) /\ Top \in Frame
    BY <1>2, TopType, HeadTailProperties
  <2>2. /\ f \in Frame /\ f.who = Top.who /\ f.pc = "put" /\ f.text = Tail(Top.text)
        /\ f.reg = Top.reg /\ f.dot = 1
    BY <2>1 DEF Frame, Pcs
  <2>3. SetTop(f)
    BY <1>1
  <2> HIDE DEF f
  <2>4. QED BY <1>2, <2>2, <2>3, SetTopRuns
<1>4. /\ Well(Len(frames), Top')
      /\ Tail(Top.text) \in Seq(Nat) /\ Len(Tail(Top.text)) = Len(Top.text) - 1
      /\ \A i \in 1 .. Len(Top.text) - 1 : Tail(Top.text)[i] = Top.text[i + 1]
  BY <1>2, <1>3, WellTail
<1>5. Stack' /\ Service' /\ Transit' /\ KeysInOrder'
  BY <1>1, <1>3, <1>4, Written DEF apic, keyboard
<1>6. Rest'
  BY <1>1, <1>2 DEF Rest, apic
<1>7. Char # Newline /\ Top.reg + 1 <= W
  BY <1>1, <1>2, TopType DEF Printing, Char, Registers, Advancing
<1>8. Tail(Top.text) # <<>>
  <2>1. Len(Top.text) # 1
    BY <1>2, <1>7, TopType DEF Printing, Char
  <2> DEFINE k == Len(Top.text)
             m == Len(Tail(Top.text))
  <2>2. k \in Nat \ {0} /\ k # 1 /\ m = k - 1
    BY <1>2, <1>4, <2>1, EmptySeq
  <2> HIDE DEF k, m
  <2>3. m # 0
    BY <2>2
  <2>4. QED BY <2>3, EmptySeq DEF m
<1>9. Cursor'
  <2>1. Len(frames') = Len(frames) /\ Top'.pc = "put" /\ Top'.text # <<>>
    BY <1>3, <1>8 DEF Runs
  <2>2. x' \in 0 .. W /\ y' <= H - 1 /\ y' \in Nat
    BY <1>1, <1>2, <1>7, Sizes, SMTT(20) DEF Cursor, Drawing
  <2>3. y' \in 0 .. H - 1 + Len(frames) /\ y' <= H - 1 + (Len(frames) - 1)
    BY <1>2, <2>2, Sizes
  <2>4. QED BY <2>1, <2>2, <2>3 DEF Cursor, Drawing
<1>10. Line'
  <2>1. CASE Len(frames) >= 2 /\ frames'[1] = frames[1]
    BY <1>1, <1>2, <2>1, LineKept
  <2>2. CASE Len(frames) = 1 /\ frames[1] = Top /\ frames'[1] = Top' /\ Top.who # "main"
    BY <1>3, <2>2 DEF Line, Runs
  <2>3. CASE Len(frames) = 1 /\ frames[1] = Top /\ frames'[1] = Top' /\ Top.who = "main"
    <3> DEFINE k == Len(Top.text)
    <3>1. /\ left < Lines /\ left \in 0 .. Lines /\ k \in 2 .. LineLen + 1
          /\ \A i \in 1 .. k : Top.text[i] = IF i = k THEN Newline ELSE LineLen + 1 - k + i
      BY <1>1, <1>2, <1>7, <2>3, MainPrinting DEF Busy, Drawing, Advancing
    <3>2. Top'.who = "main" /\ Top'.pc = "put" /\ Top'.text = Tail(Top.text)
      BY <1>3, <2>3 DEF Runs
    <3>3. Top'.text # <<>> /\ Len(Top'.text) = k - 1
      BY <1>4, <1>8, <3>2
    <3>4. \A i \in 1 .. k - 1 : Top'.text[i] = Top.text[i + 1]
      BY <1>4, <3>2
    <3> HIDE DEF k
    <3>5. \A i \in 1 .. k - 1 :
            Top'.text[i] = IF i = k - 1 THEN Newline ELSE LineLen + 1 - (k - 1) + i
      <4> SUFFICES ASSUME NEW i \in 1 .. k - 1
                   PROVE  Top'.text[i] = IF i = k - 1 THEN Newline ELSE LineLen + 1 - (k - 1) + i
        OBVIOUS
      <4>1. k \in Nat /\ i \in Nat /\ i + 1 \in 1 .. k /\ (i + 1 = k <=> i = k - 1)
        BY <3>1, Sizes
      <4>2. Top'.text[i] = IF i + 1 = k THEN Newline ELSE LineLen + 1 - k + (i + 1)
        BY <3>1, <3>4, <4>1
      <4>3. LineLen + 1 - k + (i + 1) = LineLen + 1 - (k - 1) + i
        BY <4>1, Sizes
      <4>4. QED BY <4>1, <4>2, <4>3
    <3>6. left' = left /\ left # Lines /\ k - 1 <= LineLen + 1
      BY <1>1, <3>1, Sizes
    <3>7. QED BY <2>3, <3>1, <3>2, <3>3, <3>5, <3>6 DEF Line
  <2>4. QED BY <1>2, <1>3, <2>1, <2>2, <2>3, FirstRuns
<1>11. QED BY <1>5, <1>6, <1>9, <1>10 DEF IInv

\* The end of a line goes to the frame buffer.
LEMMA FlipStep == ASSUME IInv, Flip PROVE IInv'
<1>1. /\ Top.pc = "flip" /\ UNCHANGED <<x, y, cells, iflag, apic, keyboard, left, env>>
      /\ SetTop([Top EXCEPT !.pc = "put", !.text = Tail(@)]) /\ screen' = cells
  BY DEF Flip, Moves
<1>2. /\ Stack /\ Cursor /\ Rest /\ Line /\ Top.text # <<>> /\ Top.reg \in Nat /\ y \in Nat
      /\ Len(frames) \in Nat /\ Len(frames) >= 1 /\ Top.text \in Seq(Nat)
  BY <1>1, Inside DEF Busy, Drawing, Advancing, IInv
<1>3. Runs(Top.who, "put", Tail(Top.text), Top.reg, 1)
  <2>1. Top.dot = 1 /\ Tail(Top.text) \in Seq(Nat)
    BY <1>1, <1>2, Standing, HeadTailProperties DEF Drawing, Advancing
  <2>2. Runs(Top.who, "put", Tail(Top.text), Top.reg, Top.dot)
    BY <1>1, <1>2, <2>1, TextRuns DEF Pcs
  <2>3. QED BY <2>1, <2>2
<1>4. /\ Well(Len(frames), Top')
      /\ Tail(Top.text) \in Seq(Nat) /\ Len(Tail(Top.text)) = Len(Top.text) - 1
  BY <1>2, <1>3, WellTail
<1>5. Stack' /\ Service' /\ Transit' /\ KeysInOrder'
  BY <1>1, <1>3, <1>4, Written DEF apic, keyboard
<1>6. Rest'
  BY <1>1, <1>2 DEF Rest, apic
<1>7. Char = Newline
  BY <1>1, <1>2, TopType DEF Printing, Char
<1>8. Cursor'
  BY <1>1, <1>2, <1>3, Sizes DEF Cursor, Runs, Drawing
<1>9. Line'
  <2>1. CASE Len(frames) >= 2 /\ frames'[1] = frames[1]
    BY <1>1, <1>2, <2>1, LineKept
  <2>2. CASE Len(frames) = 1 /\ frames[1] = Top /\ frames'[1] = Top' /\ Top.who # "main"
    BY <1>3, <2>2 DEF Line, Runs
  <2>3. CASE Len(frames) = 1 /\ frames[1] = Top /\ frames'[1] = Top' /\ Top.who = "main"
    <3>1. /\ left < Lines /\ left \in 0 .. Lines /\ Len(Top.text) = 1
      BY <1>1, <1>2, <1>7, <2>3, MainPrinting DEF Busy, Drawing, Advancing
    <3>2. Top'.who = "main" /\ Top'.pc = "put" /\ Top'.text = Tail(Top.text)
      BY <1>3, <2>3 DEF Runs
    <3>3. Top'.text \in Seq(Nat) /\ Len(Top'.text) = 0
      BY <1>4, <3>1, <3>2
    <3>4. Top'.text = <<>>
      BY <3>3, EmptySeq
    <3>5. left' = left /\ left # Lines /\ 0 <= LineLen + 1
      BY <1>1, <3>1, Sizes
    <3>6. \A i \in 1 .. 0 : FALSE
      OBVIOUS
    <3>7. QED BY <2>3, <3>2, <3>3, <3>4, <3>5, <3>6 DEF Line
  <2>4. QED BY <1>2, <1>3, <2>1, <2>2, <2>3, FirstRuns
<1>10. QED BY <1>5, <1>6, <1>8, <1>9 DEF IInv

\* After its last line a context leaves the cursor at the start of a row.
LEMMA PrintedStep == ASSUME IInv, Printed PROVE IInv'
<1> DEFINE p == AfterText(Top.who)
<1>1. /\ Top.pc = "put" /\ Top.text = <<>> /\ Goto(p)
      /\ UNCHANGED <<x, y, cells, screen, iflag, apic, keyboard, left, env>>
  BY DEF Printed, console
<1>2. /\ Stack /\ Cursor /\ Rest /\ Line /\ Top \in Frame
      /\ Len(frames) \in Nat /\ Len(frames) >= 1
  BY TopType DEF IInv
<1>3. Top.who \in {"main", "panic", "keyboard", "timer", "not_implemented", "exception"}
  BY <1>2 DEF Frame, Handlers
<1>4. /\ p \in {"idle", "stop", "eoi", "iret", "hlt"}
      /\ p = "idle" <=> Top.who = "main"
      /\ p = "stop" <=> Top.who = "panic"
      /\ p = "eoi" <=> Top.who \in {"keyboard", "timer"}
      /\ p = "iret" <=> Top.who = "not_implemented"
      /\ p = "hlt" <=> Top.who = "exception"
  BY <1>3 DEF AfterText
<1> HIDE DEF p
<1>5. p \in Pcs
  BY <1>4 DEF Pcs
<1>6. Runs(Top.who, p, Top.text, Top.reg, Top.dot)
  BY <1>1, <1>2, <1>5, GotoRuns
<1>7. /\ Top'.who = Top.who /\ Top'.pc = p /\ Top'.text = <<>> /\ Top'.reg = Top.reg
      /\ Fits(Top'.pc, Top'.dot)
  BY <1>1, <1>4, <1>6, Standing DEF Runs, Drawing, Advancing
<1>8. Well(Len(frames), Top')
  <2>1. Placed(Top')
    BY <1>4, <1>7 DEF Placed
  <2>2. Printing(Top')
    BY <1>4, <1>7 DEF Printing, Busy, Drawing, Advancing
  <2>3. Registers(Len(frames), Top')
    BY <1>2, <1>4, <1>7, TopType DEF Registers
  <2>4. QED BY <1>2, <1>7, <2>1, <2>2, <2>3, TopType DEF Well
<1>9. Stack' /\ Service' /\ Transit' /\ KeysInOrder'
  BY <1>1, <1>4, <1>6, <1>8, Written DEF apic, keyboard
<1>10. Rest'
  BY <1>1, <1>2 DEF Rest, apic
<1>11. Cursor'
  BY <1>1, <1>2, <1>4, <1>6, <1>7, Sizes DEF Cursor, Runs, Drawing
<1>12. Line'
  <2>1. CASE Len(frames) >= 2 /\ frames'[1] = frames[1]
    BY <1>1, <1>2, <2>1, LineKept
  <2>2. CASE Len(frames) = 1 /\ frames[1] = Top /\ frames'[1] = Top'
    BY <1>1, <1>2, <1>4, <1>7, <2>2 DEF Line, Busy, Drawing, Advancing
  <2>3. QED BY <1>2, <1>6, <2>1, <2>2, FirstRuns
<1>13. QED BY <1>9, <1>10, <1>11, <1>12 DEF IInv
-----------------------------------------------------------------------------
(* kernel_stage2.                                                          *)

\* Main in APIC::initialise or between its lines: it is alone on the stack.
LEMMA MainAlone ==
    ASSUME IInv, Top.pc \in {"apic", "route", "sti", "idle"}
    PROVE  /\ Stack /\ Cursor /\ Rest /\ Line /\ Len(frames) = 1 /\ frames[1] = Top
           /\ Top.who = "main" /\ Top.text = <<>> /\ y \in 0 .. H - 1 /\ x \in 0 .. W
           /\ Top.reg \in Nat /\ Top.reg <= Cells + W + H + Keys + Len(frames)
<1>1. Stack /\ Cursor /\ Rest /\ Line
  BY DEF IInv
<1>2. Top.who = "main"
  BY <1>1, TopType DEF Placed
<1>3. Len(frames) = 1 /\ frames[1] = Top
  BY <1>1, <1>2, TopType
<1>4. Top.text = <<>>
  BY <1>1, <1>3 DEF Line
<1>5. y \in 0 .. H - 1 /\ x \in 0 .. W
  BY <1>1, Sizes DEF Cursor, Drawing
<1>6. Top.reg \in Nat /\ Top.reg <= Cells + W + H + Keys + Len(frames)
  BY <1>1, TopType DEF Registers
<1>7. QED BY <1>1, <1>2, <1>3, <1>4, <1>5, <1>6

\* A step of APIC::initialise that goes on to the next.
LEMMA BootGoto ==
    ASSUME IInv, Top.pc \in {"apic", "route", "sti"}, NEW p \in {"route", "sti", "idle"}, Goto(p),
           iflag' \in BOOLEAN, routed' \in BOOLEAN, UNCHANGED <<irr, isr, keyboard, console, left, env>>
    PROVE  IInv'
<1>1. /\ Stack /\ Cursor /\ Rest /\ Line /\ Len(frames) = 1 /\ frames[1] = Top
      /\ Top.who = "main" /\ Top.text = <<>> /\ y \in 0 .. H - 1 /\ x \in 0 .. W
      /\ Top.reg \in Nat /\ Top.reg <= Cells + W + H + Keys + Len(frames)
  BY MainAlone
<1>2. Runs(Top.who, p, Top.text, Top.reg, Top.dot)
  BY <1>1, GotoRuns DEF Pcs
<1>3. Top'.who = "main" /\ Top'.pc = p /\ Top'.text = <<>> /\ Top'.reg = Top.reg
      /\ Len(frames') = 1 /\ frames'[1] = Top' /\ Fits(Top'.pc, Top'.dot)
  BY <1>1, <1>2, Standing DEF Runs, Drawing, Advancing
<1>4. Well(Len(frames), Top')
  BY <1>1, <1>3 DEF Well, Placed, Printing, Registers, Busy, Drawing, Advancing
<1>5. Stack' /\ Service' /\ Transit' /\ KeysInOrder'
  BY <1>2, <1>4, Written DEF keyboard
<1>6. Rest'
  BY <1>1 DEF Rest, console
<1>7. Cursor'
  BY <1>1, <1>3, Sizes DEF Cursor, console, Drawing
<1>8. Line'
  <2>1. left' = Lines
    BY <1>1 DEF Line
  <2>2. frames'[1].who = "main" /\ frames'[1].pc = p /\ frames'[1].text = <<>>
    BY <1>3
  <2>3. p \notin Busy \cup {"put"} /\ ~(left' < Lines)
    BY <2>1, Sizes DEF Busy, Drawing, Advancing
  <2>4. QED BY <2>1, <2>2, <2>3 DEF Line
<1>9. QED BY <1>5, <1>6, <1>7, <1>8 DEF IInv

\* Without CPUID's APIC, a MADT or an I/O APIC in it, main panics.
LEMMA PanicStep ==
    ASSUME IInv, Top.pc = "apic", Panic, UNCHANGED <<iflag, apic, keyboard, console, left, env>>
    PROVE  IInv'
<1>1. /\ Stack /\ Cursor /\ Rest /\ Line /\ Len(frames) = 1 /\ frames[1] = Top
      /\ Top.who = "main" /\ Top.text = <<>> /\ y \in 0 .. H - 1 /\ x \in 0 .. W
      /\ Top.reg \in Nat /\ Top.reg <= Cells + W + H + Keys + Len(frames)
  BY MainAlone
<1> DEFINE m == Message(1)
           f == [Top EXCEPT !.pc = "put", !.who = "panic", !.text = m]
<1>2. m \in Seq(Nat) /\ Len(m) = 2 /\ m[2] = Newline /\ m # <<>>
  <2>1. 1 \in Nat /\ 1 + 1 = 2 /\ 2 \in 1 .. 1 + 1
    OBVIOUS
  <2>2. m \in Seq(Nat) /\ Len(m) = 2 /\ m[2] = Newline
    BY <2>1, MessageType
  <2> HIDE DEF m
  <2>3. QED BY <2>2
<1> HIDE DEF m
<1>3. Top \in Frame
  BY <1>1, TopType
<1>4. f \in Frame /\ f.who = "panic" /\ f.pc = "put" /\ f.text = m /\ f.reg = Top.reg
      /\ f.dot = Top.dot
  BY <1>2, <1>3 DEF Frame, Pcs
<1>5. SetTop(f)
  BY DEF Panic, m
<1> HIDE DEF f
<1>6. Runs("panic", "put", m, Top.reg, Top.dot)
  BY <1>1, <1>4, <1>5, SetTopRuns
<1>7. Top'.who = "panic" /\ Top'.pc = "put" /\ Top'.text = m /\ Top'.reg = Top.reg
      /\ Len(frames') = 1 /\ frames'[1] = Top' /\ Fits(Top'.pc, Top'.dot)
  BY <1>1, <1>6, Standing DEF Runs, Drawing, Advancing
<1>8. Well(Len(frames), Top')
  <2>1. Placed(Top')
    BY <1>7 DEF Placed
  <2>2. Printing(Top')
    BY <1>2, <1>7 DEF Printing, Busy, Drawing, Advancing
  <2>3. Registers(Len(frames), Top')
    BY <1>1, <1>7 DEF Registers
  <2>4. QED BY <1>1, <1>7, <2>1, <2>2, <2>3 DEF Well
<1>9. Stack' /\ Service' /\ Transit' /\ KeysInOrder'
  BY <1>6, <1>8, Written DEF apic, keyboard
<1>10. Rest'
  BY <1>1 DEF Rest, apic, console
<1>11. Cursor'
  BY <1>1, <1>2, <1>7, Sizes DEF Cursor, console, Drawing
<1>12. Line'
  BY <1>7 DEF Line
<1>13. QED BY <1>9, <1>10, <1>11, <1>12 DEF IInv

\* The start-up steps before the loop of kernel_stage2, and their panics.
LEMMA BootStep == ASSUME IInv, FindIoApic \/ RouteKeyboard \/ EnableInterrupts PROVE IInv'
<1>0. iflag \in BOOLEAN /\ routed \in BOOLEAN
  BY DEF IInv, Rest
<1>1. CASE FindIoApic
  <2>1. CASE Goto("route")
    BY <1>0, <1>1, <2>1, BootGoto DEF FindIoApic, apic
  <2>2. CASE Panic
    BY <1>1, <2>2, PanicStep DEF FindIoApic
  <2>3. QED BY <1>1, <2>1, <2>2 DEF FindIoApic
<1>2. CASE RouteKeyboard
  BY <1>0, <1>2, BootGoto DEF RouteKeyboard
<1>3. CASE EnableInterrupts
  BY <1>0, <1>3, BootGoto DEF EnableInterrupts, apic
<1>4. QED BY <1>1, <1>2, <1>3

\* Marks that fade are marks of no line.
LEMMA FadedType ==
    ASSUME NEW b \in Buffers
    PROVE  /\ Faded(b) \in Buffers
           /\ \A c \in 0 .. Cells - 1 : \A m \in Faded(b)[c] : m[1] = 0
<1>1. \A c \in 0 .. Cells - 1 : b[c] \in SUBSET (Nat \X Nat)
  BY DEF Buffers
<1>2. \A c \in 0 .. Cells - 1 : \A m \in b[c] : <<0, m[2]>> \in Nat \X Nat
  BY <1>1
<1>3. \A c \in 0 .. Cells - 1 : Faded(b)[c] = {<<0, m[2]>> : m \in b[c]}
  BY DEF Faded
<1>4. Faded(b) \in Buffers
  BY <1>2 DEF Faded, Buffers
<1>5. QED BY <1>3, <1>4

\* A new line: the buffers hold nothing of it yet.
LEMMA MainPrintsStep == ASSUME IInv, MainPrints PROVE IInv'
<1>1. /\ Top.pc = "idle" /\ left > 0 /\ left' = left - 1
      /\ SetTop([Top EXCEPT !.pc = "put", !.text = Message(LineLen)])
      /\ cells' = Faded(cells) /\ screen' = Faded(screen)
      /\ env' \in {[env EXCEPT !.spoilt = TRUE], [env EXCEPT !.spoilt = FALSE]}
      /\ UNCHANGED <<iflag, apic, keyboard, x, y>>
  BY DEF MainPrints
<1>2. /\ Stack /\ Cursor /\ Rest /\ Line /\ Len(frames) = 1 /\ frames[1] = Top
      /\ Top.who = "main" /\ Top.text = <<>> /\ y \in 0 .. H - 1 /\ x \in 0 .. W
      /\ Top.reg \in Nat /\ Top.reg <= Cells + W + H + Keys + Len(frames)
  BY <1>1, MainAlone
<1> DEFINE m == Message(LineLen)
<1>3. /\ m \in Seq(Nat) /\ Len(m) = LineLen + 1
      /\ \A i \in 1 .. LineLen + 1 : m[i] = IF i = LineLen + 1 THEN Newline ELSE i
  BY Sizes, MessageType
<1>4. SetTop([Top EXCEPT !.pc = "put", !.text = m])
  BY <1>1
<1> HIDE DEF m
<1>5. m # <<>> /\ m[Len(m)] = Newline
  <2>1. LineLen + 1 \in 1 .. LineLen + 1 /\ LineLen + 1 # 0
    BY Sizes
  <2>2. QED BY <1>3, <2>1, EmptySeq
<1>6. Runs(Top.who, "put", m, Top.reg, Top.dot)
  BY <1>2, <1>3, <1>4, TextRuns DEF Pcs
<1>7. Top'.who = "main" /\ Top'.pc = "put" /\ Top'.text = m /\ Top'.reg = Top.reg
      /\ Len(frames') = 1 /\ frames'[1] = Top' /\ Fits(Top'.pc, Top'.dot)
  BY <1>1, <1>2, <1>6, Standing DEF Runs, Drawing, Advancing
<1>8. Well(Len(frames), Top')
  <2>1. Placed(Top')
    BY <1>7 DEF Placed
  <2>2. Printing(Top')
    BY <1>5, <1>7 DEF Printing, Busy, Drawing, Advancing
  <2>3. Registers(Len(frames), Top')
    BY <1>2, <1>7 DEF Registers
  <2>4. QED BY <1>2, <1>7, <2>1, <2>2, <2>3 DEF Well
<1>9. Stack' /\ Service' /\ Transit' /\ KeysInOrder'
  BY <1>1, <1>6, <1>8, Written DEF apic, keyboard
<1>10. left' \in 0 .. Lines /\ left' < Lines /\ left' # Lines
  <2>1. left \in 0 .. Lines
    BY <1>2 DEF Rest
  <2>2. left > 0 /\ left' = left - 1
    BY <1>1
  <2>3. QED BY <2>1, <2>2, Sizes
<1>11. Rest'
  <2>1. cells' \in Buffers /\ screen' \in Buffers
    BY <1>1, <1>2, FadedType DEF Rest
  <2>2. QED BY <1>1, <1>2, <1>10, <2>1 DEF Rest, apic
<1>12. Cursor'
  BY <1>1, <1>2, <1>5, <1>7, Sizes DEF Cursor, Drawing
<1>13. \A i \in 1 .. LineLen + 1 :
         m[i] = IF i = LineLen + 1 THEN Newline ELSE LineLen + 1 - (LineLen + 1) + i
  BY <1>3, Sizes
<1>14. Line'
  <2>1. /\ frames'[1].text = m /\ frames'[1].pc = "put" /\ frames'[1].who = "main"
        /\ left' # Lines
    BY <1>7, <1>10
  <2>2. Len(m) <= LineLen + 1 /\ Len(m) = LineLen + 1
    BY <1>3, Sizes
  <2>3. QED BY <1>13, <2>1, <2>2 DEF Line
<1>15. QED BY <1>9, <1>11, <1>12, <1>14 DEF IInv
-----------------------------------------------------------------------------
(* Entering and leaving handlers.                                          *)

\* A handler that is entered finds the cursor wherever the interrupted
\* context had it, at most one row further down per context.
LEMMA EnterStep ==
    ASSUME IInv, NEW who \in Handlers, Enters(who), UNCHANGED <<console, left>>
    PROVE  Stack' /\ Cursor' /\ Line'
<1>1. Stack /\ Cursor /\ Line /\ Len(frames) \in Nat /\ Len(frames) >= 1
  BY TopType DEF IInv
<1>2. Stack'
  BY <1>1, StackEnters
<1>3. Cursor'
  <2>1. Top'.pc \in {"in", "put"} /\ Top'.text # <<>> /\ Len(frames') = Len(frames) + 1
    BY ContextType DEF Enters
  <2>2. x' = x /\ y' = y /\ x \in 0 .. W /\ y \in 0 .. H - 1 + Len(frames)
    BY <1>1 DEF console, Cursor, Drawing
  <2>3. y \in 0 .. H - 1 + (Len(frames) + 1) /\ y <= H - 1 + ((Len(frames) + 1) - 1)
    BY <1>1, <2>2, Sizes
  <2>4. QED BY <2>1, <2>2, <2>3 DEF Cursor, Drawing
<1>4. frames'[1].who = frames[1].who /\ frames'[1].text = frames[1].text /\ frames'[1].pc = frames[1].pc
  <2>1. CASE Len(frames) = 1
    <3>1. Top.pc # "hlt" /\ frames[1] = Top
      BY <1>1, <2>1, TopType DEF Placed
    <3>2. QED BY <2>1, <3>1 DEF Enters
  <2>2. CASE Len(frames) # 1
    <3> DEFINE n == Len(frames)
    <3>1. n \in Nat /\ n >= 1 /\ n # 1
      BY <1>1, <2>2
    <3> HIDE DEF n
    <3>2. 1 \in 1 .. n - 1
      BY <3>1
    <3>3. QED BY <3>2 DEF Enters, n
  <2>3. QED BY <2>1, <2>2
<1>5. Line'
  BY <1>1, <1>4, LineKept DEF console
<1>6. QED BY <1>2, <1>3, <1>5

\* The gates of exceptions.
LEMMA GateOfException ==
    ASSUME NEW v \in Exceptions PROVE Gate(v) = "exception"
<1>1. v \notin {32, 33, 34} /\ v \notin (0 .. 254) \ (Exceptions \cup {32, 33, 34})
  BY DEF Exceptions
<1>2. QED BY <1>1 DEF Gate, KeyboardVector

\* A page fault of main.
LEMMA MainFaultsStep == ASSUME IInv, MainFaults PROVE IInv'
<1>1. /\ Top.pc = "idle" /\ UNCHANGED <<iflag, apic, keyboard, console, left, env>>
      /\ frames' = Append(frames, Context("exception"))
  <2>1. Gate(14) = "exception"
    <3>1. 14 \in Exceptions
      BY DEF Exceptions
    <3>2. QED BY <3>1, GateOfException
  <2>2. QED BY <2>1 DEF MainFaults
<1>2. Stack /\ Service /\ Transit /\ KeysInOrder /\ Rest
  BY DEF IInv
<1>3. Enters("exception")
  <2>1. Top \in Frame /\ frames = [frames EXCEPT ![Len(frames)] = Top]
    BY <1>2, TopType DEF Stack
  <2>2. frames' = Append([frames EXCEPT ![Len(frames)] = Top], Context("exception"))
    BY <1>1, <2>1
  <2>3. QED BY <1>2, <2>1, <2>2, EntersStack DEF Handlers
<1>4. Stack' /\ Cursor' /\ Line'
  BY <1>1, <1>3, EnterStep DEF Handlers
<1>5. /\ Reading' = Reading /\ Storing' = Storing /\ Live' = Live
      /\ \A i \in Storing : frames'[i].reg = frames[i].reg
  BY <1>2, <1>3, RolesEnter DEF Handlers
<1>6. Service'
  BY <1>1, <1>2, <1>5 DEF Service, apic, keyboard
<1>7. Transit' /\ KeysInOrder'
  BY <1>1, <1>2, <1>4, <1>5, TransitKept DEF keyboard
<1>8. Rest'
  BY <1>1, <1>2 DEF Rest, apic, console
<1>9. QED BY <1>4, <1>6, <1>7, <1>8 DEF IInv

\* The vectors that are ever requested lead to these gates.
LEMMA GateOf ==
    ASSUME NEW v \in Vectors
    PROVE  /\ v \in 32 .. 254 /\ Priority(v) >= 2 /\ Priority(v) \in Nat
           /\ Gate(v) \in {"keyboard", "timer", "not_implemented"} /\ Gate(v) \in Handlers
           /\ Gate(v) = "keyboard" <=> v = KeyboardVector
           /\ Gate(v) \in {"keyboard", "timer"} => Priority(v) = 2
<1>1. v \in 32 .. 254 /\ v # 34
  BY ScreenAssumption DEF Vectors, KeyboardVector
<1>2. v \notin Exceptions /\ v \in 0 .. 254
  BY <1>1 DEF Exceptions
<1>3. Gate(v) = IF v = 32 THEN "timer" ELSE IF v = 33 THEN "keyboard" ELSE "not_implemented"
  <2>1. CASE v = 32
    BY <1>1, <1>2, <2>1 DEF Gate, KeyboardVector
  <2>2. CASE v = 33
    BY <1>1, <1>2, <2>2 DEF Gate, KeyboardVector
  <2>3. CASE v \notin {32, 33}
    <3>1. v \in (0 .. 254) \ (Exceptions \cup {32, 33, 34})
      BY <1>1, <1>2, <2>3
    <3>2. QED BY <1>1, <1>2, <2>3, <3>1 DEF Gate, KeyboardVector
  <2>4. QED BY <2>1, <2>2, <2>3
<1>4. Priority(v) >= 2 /\ Priority(v) \in Nat /\ (v \in {32, 33} => Priority(v) = 2)
  BY <1>1 DEF Priority
<1>5. QED BY <1>1, <1>3, <1>4 DEF Handlers, KeyboardVector

\* The processor accepts an interrupt.  A handler that will signal its end
\* is entered only when nothing is in service: every vector is of at least
\* its priority class.
LEMMA DeliverStep == ASSUME IInv, Deliver PROVE IInv'
<1>1. Stack /\ Service /\ Transit /\ KeysInOrder /\ Rest
  BY DEF IInv
<1>2. PICK v \in Deliverable :
        /\ irr' = irr \ {v} /\ isr' = isr \cup {v} /\ Push(Gate(v))
        /\ env' = [env EXCEPT !.unended = @ \/ Gate(v) = "not_implemented",
                              !.spoilt = @ \/ Exposed(Top)]
  BY DEF Deliver
<1>3. UNCHANGED <<iflag, routed, keyboard, console, left>>
  BY DEF Deliver
<1>4. v \in irr /\ v \in Vectors /\ \A u \in isr : Priority(u) < Priority(v)
  BY <1>1 DEF Deliverable, Rest
<1>5. /\ Priority(v) \in Nat /\ Gate(v) \in {"keyboard", "timer", "not_implemented"}
      /\ Gate(v) \in Handlers /\ (Gate(v) = "keyboard" <=> v = KeyboardVector)
      /\ Gate(v) \in {"keyboard", "timer"} => Priority(v) = 2
  BY <1>4, GateOf
<1>6. Enters(Gate(v))
  BY <1>1, <1>2, <1>5, PushEnters
<1>7. Rest'
  BY <1>1, <1>2, <1>3, <1>4 DEF Rest, console
<1>8. Stack' /\ Cursor' /\ Line'
  BY <1>3, <1>5, <1>6, <1>7, EnterStep
<1> DEFINE top == Len(frames) + 1
<1>9. /\ Reading' = Reading \cup (IF Gate(v) = "keyboard" THEN {top} ELSE {})
      /\ Storing' = Storing
      /\ Live' = Live \cup (IF Gate(v) \in {"keyboard", "timer"} THEN {top} ELSE {})
      /\ \A i \in Storing : frames'[i].reg = frames[i].reg
  BY <1>1, <1>5, <1>6, RolesEnter
<1> HIDE DEF top
<1>10. Transit' /\ KeysInOrder'
  BY <1>1, <1>3, <1>8, <1>9, TransitKept DEF keyboard
<1>11. Gate(v) \in {"keyboard", "timer"} => Live = {}
  <2>1. SUFFICES ASSUME Gate(v) \in {"keyboard", "timer"} PROVE isr = {}
    BY <1>1 DEF Service
  <2>2. ASSUME NEW u \in isr PROVE FALSE
    <3>1. u \in Vectors /\ Priority(u) < 2
      BY <1>1, <1>4, <1>5, <2>1 DEF Rest
    <3>2. Priority(u) >= 2 /\ Priority(u) \in Nat
      BY <3>1, GateOf
    <3>3. QED BY <3>1, <3>2
  <2>3. QED BY <2>2
<1>12. port' = port /\ isr' # {}
  BY <1>2, <1>3 DEF keyboard
<1>13. Service'
  <2>1. \A i, j \in Live' : i = j
    BY <1>1, <1>9, <1>11 DEF Service
  <2>2. CASE v = KeyboardVector
    <3>1. port # 0 /\ KeyboardVector \notin irr'
      BY <1>1, <1>2, <1>4, <2>2 DEF Service
    <3>2. QED BY <1>12, <2>1, <3>1 DEF Service
  <2>3. CASE v # KeyboardVector
    <3>1. Reading' = Reading /\ irr' \subseteq irr
      BY <1>2, <1>5, <1>9, <2>3
    <3>2. QED BY <1>1, <1>12, <2>1, <3>1 DEF Service
  <2>4. QED BY <2>2, <2>3
<1>14. QED BY <1>7, <1>8, <1>10, <1>13 DEF IInv

\* The spurious vector has no gate: it raises the exception of a missing gate.
LEMMA SpuriousGate == Gate(255) = "absent" /\ Gate(11) = "exception"
<1>1. 255 \notin Exceptions /\ 255 \notin 0 .. 254 /\ 11 \in Exceptions
  BY DEF Exceptions
<1>2. Gate(255) = "absent"
  BY <1>1 DEF Gate, KeyboardVector
<1>3. Gate(11) = "exception"
  BY <1>1, GateOfException
<1>4. QED BY <1>2, <1>3

\* A spurious interrupt ends in the handler of an exception.
LEMMA SpuriousStep == ASSUME IInv, Spurious PROVE IInv'
<1>1. /\ UNCHANGED <<iflag, apic, keyboard, console, left>>
      /\ env' = [env EXCEPT !.odd = @ + 1, !.spoilt = @ \/ Exposed(Top)] /\ Push("exception")
  BY SpuriousGate DEF Spurious
<1>2. Stack /\ Service /\ Transit /\ KeysInOrder /\ Rest
  BY DEF IInv
<1>3. Enters("exception")
  BY <1>1, <1>2, PushEnters DEF Handlers
<1>4. Rest'
  <2> DEFINE b == env.spoilt \/ Exposed(Top)
             o == env.odd + 1
  <2>1. b \in BOOLEAN /\ env' = [env EXCEPT !.odd = o, !.spoilt = b]
    BY <1>1
  <2>2. env' \in [odd : Nat, lost : BOOLEAN, unended : BOOLEAN, spoilt : BOOLEAN]
    <3>1. env \in [odd : Nat, lost : BOOLEAN, unended : BOOLEAN, spoilt : BOOLEAN]
      BY <1>2 DEF Rest
    <3>2. o \in Nat
      BY <3>1
    <3> HIDE DEF b, o
    <3>3. QED BY <2>1, <3>1, <3>2
  <2>3. QED BY <1>1, <1>2, <2>2 DEF Rest, apic, console
<1>5. Stack' /\ Cursor' /\ Line'
  BY <1>1, <1>3, <1>4, EnterStep DEF Handlers
<1>6. /\ Reading' = Reading /\ Storing' = Storing /\ Live' = Live
      /\ \A i \in Storing : frames'[i].reg = frames[i].reg
  BY <1>2, <1>3, RolesEnter DEF Handlers
<1>7. Service'
  BY <1>1, <1>2, <1>6 DEF Service, apic, keyboard
<1>8. Transit' /\ KeysInOrder'
  BY <1>1, <1>2, <1>5, <1>6, TransitKept DEF keyboard
<1>9. QED BY <1>4, <1>5, <1>7, <1>8 DEF IInv

\* A handler that returns leaves the cursor at the start of a row of the
\* screen, which suits whatever the context underneath is about to do.
LEMMA ReturnStep == ASSUME IInv, ReturnFromInterrupt PROVE IInv'
<1>1. Top.pc = "iret" /\ UNCHANGED <<iflag, apic, keyboard, console, left, env>>
  BY DEF ReturnFromInterrupt
<1>2. Stack /\ Service /\ Transit /\ KeysInOrder /\ Rest /\ Cursor /\ Line /\ Len(frames) \in Nat
  BY TopType DEF IInv
<1>3. /\ Stack' /\ Len(frames) >= 2 /\ Len(frames') = Len(frames) - 1
      /\ \A i \in 1 .. Len(frames) - 1 : frames'[i] = frames[i]
  BY <1>2, StackReturns
<1>4. /\ Reading' = Reading /\ Storing' = Storing /\ Live' = Live
      /\ \A i \in Storing : frames'[i].reg = frames[i].reg
  BY <1>2, RolesReturn
<1>5. Service'
  BY <1>1, <1>2, <1>4 DEF Service, apic, keyboard
<1>6. Transit' /\ KeysInOrder'
  BY <1>1, <1>2, <1>3, <1>4, TransitKept DEF keyboard
<1>7. Cursor'
  <2>1. x' = 0 /\ y' \in 0 .. H - 1
    BY <1>1, <1>2, Sizes DEF Cursor, console, Drawing
  <2>2. y' \in 0 .. H - 1 + Len(frames') /\ y' <= H - 1 + (Len(frames') - 1)
    BY <1>2, <1>3, <2>1, Sizes
  <2>3. x' \in 0 .. W /\ x' + 1 <= W
    BY <2>1, Sizes
  <2>4. QED BY <2>1, <2>2, <2>3 DEF Cursor, Drawing
<1>8. Line'
  <2>1. frames'[1] = frames[1]
    BY <1>2, <1>3
  <2>2. QED BY <1>1, <1>2, <2>1, LineKept DEF console
<1>9. Rest'
  BY <1>1, <1>2 DEF Rest, apic, console
<1>10. QED BY <1>3, <1>5, <1>6, <1>7, <1>8, <1>9 DEF IInv
-----------------------------------------------------------------------------
(* The keyboard's handler and the devices.                                 *)

\* A handler that reads or stores has still to signal its end, so there is
\* only one.
LEMMA OneHandler ==
    ASSUME Stack, Service
    PROVE  /\ Reading \subseteq Live /\ Storing \subseteq Live
           /\ \A i \in Reading, j \in Storing : FALSE
           /\ \A i, j \in Reading \cup Storing : i = j
<1>1. \A i \in 1 .. Len(frames) : frames[i].pc \in {"in", "store"} => frames[i].who = "keyboard"
  BY DEF Stack, Well, Placed
<1>2. Reading \subseteq Live /\ Storing \subseteq Live
  BY <1>1 DEF Reading, Storing, Live
<1>3. \A i, j \in Reading \cup Storing : i = j
  BY <1>2 DEF Service
<1>4. \A i \in Reading, j \in Storing : FALSE
  <2> SUFFICES ASSUME NEW i \in Reading, NEW j \in Storing PROVE FALSE
    OBVIOUS
  <2>1. i = j
    BY <1>3
  <2>2. QED BY <2>1 DEF Reading, Storing
<1>5. QED BY <1>2, <1>3, <1>4

\* What a full sequence of keys is.
LEMMA Counting ==
    ASSUME NEW c \in Nat
    PROVE  LET s == [i \in 1 .. c |-> i] IN
           /\ s \in Seq(Nat) /\ Len(s) = c /\ \A i \in 1 .. c : s[i] = i
           /\ Append(s, c + 1) = [i \in 1 .. c + 1 |-> i]
<1> DEFINE s == [i \in 1 .. c |-> i]
           t == [i \in 1 .. c + 1 |-> i]
<1>1. s \in Seq(Nat) /\ Len(s) = c /\ \A i \in 1 .. c : s[i] = i
  OBVIOUS
<1>2. t \in Seq(Nat) /\ Len(t) = c + 1 /\ \A i \in 1 .. c + 1 : t[i] = i
  <2>1. c + 1 \in Nat
    OBVIOUS
  <2>2. QED BY <2>1
<1> HIDE DEF s, t
<1>3. /\ Append(s, c + 1) \in Seq(Nat) /\ Len(Append(s, c + 1)) = c + 1
      /\ \A i \in 1 .. c : Append(s, c + 1)[i] = s[i]
      /\ Append(s, c + 1)[c + 1] = c + 1
  <2>1. c + 1 \in Nat
    OBVIOUS
  <2>2. QED BY <1>1, <2>1, AppendProperties
<1>4. \A i \in 1 .. c + 1 : Append(s, c + 1)[i] = t[i]
  <2>1. \A i \in 1 .. c + 1 : i = c + 1 \/ i \in 1 .. c
    OBVIOUS
  <2>2. QED BY <1>1, <1>2, <1>3, <2>1
<1>5. Append(s, c + 1) = t
  BY <1>2, <1>3, <1>4, SeqEqual
<1>6. QED BY <1>1, <1>5 DEF s, t

\* The keys on the wire and in the port are counted by naturals.
LEMMA KeyCounts ==
    ASSUME Transit
    PROVE  /\ pressed \in Nat /\ Len(wire) \in Nat /\ Len(wire) <= pressed /\ port \in Nat
           /\ ReadSoFar \in Nat /\ ReadSoFar <= pressed
<1>1. pressed \in Nat /\ Len(wire) \in Nat /\ Len(wire) <= pressed /\ port \in Nat
  BY Sizes DEF Transit
<1>2. port # 0 => port = pressed - Len(wire)
  BY DEF Transit
<1> DEFINE n == Len(wire)
<1>3. ReadSoFar = pressed - n - (IF port = 0 THEN 0 ELSE 1)
  BY DEF ReadSoFar
<1>4. n \in Nat /\ n <= pressed /\ (port # 0 => port = pressed - n)
  BY <1>1, <1>2
<1> HIDE DEF n
<1>5. ReadSoFar \in Nat /\ ReadSoFar <= pressed
  BY <1>1, <1>3, <1>4
<1>6. QED BY <1>1, <1>5

\* Reading the port takes the key into the handler's hand.
LEMMA ReadPortStep == ASSUME IInv, ReadPort PROVE IInv'
<1>1. /\ Top.pc = "in" /\ UNCHANGED <<iflag, apic, pressed, wire, buffer, console, left, env>>
      /\ SetTop([Top EXCEPT !.pc = "store", !.reg = port]) /\ port' = 0
  BY DEF ReadPort
<1>2. /\ Stack /\ Service /\ Transit /\ KeysInOrder /\ Rest /\ Cursor /\ Line
      /\ Len(frames) \in Nat /\ Len(frames) >= 1 /\ frames[Len(frames)] = Top
  BY TopType DEF IInv
<1> DEFINE n == Len(frames)
<1>3. port \in 0 .. Keys /\ port \in Nat
  BY <1>2, Sizes DEF Transit
<1>4. Runs(Top.who, "store", Top.text, port, Top.dot)
  BY <1>1, <1>2, <1>3, LoadRuns DEF Pcs
<1>5. Top.who = "keyboard" /\ Top.text # <<>>
  BY <1>1, <1>2, TopType DEF Placed, Printing
<1>6. Top'.who = "keyboard" /\ Top'.pc = "store" /\ Top'.text = Top.text /\ Top'.reg = port
      /\ Len(frames') = Len(frames) /\ frames'[n] = Top' /\ Fits(Top'.pc, Top'.dot)
  BY <1>1, <1>4, <1>5, Standing DEF Runs, Drawing, Advancing
<1>7. Well(Len(frames), Top')
  <2>1. Placed(Top')
    BY <1>6 DEF Placed
  <2>2. Printing(Top')
    BY <1>2, <1>5, <1>6, TopType DEF Printing, Busy, Drawing, Advancing
  <2>3. Registers(Len(frames), Top')
    BY <1>2, <1>3, <1>6, Sizes DEF Registers
  <2>4. QED BY <1>2, <1>5, <1>6, <2>1, <2>2, <2>3, TopType DEF Well
<1>8. Stack'
  BY <1>2, <1>4, <1>7, StackRuns
<1>9. n \in Reading /\ n \in Live
  <2>1. n \in 1 .. Len(frames)
    BY <1>2
  <2>2. QED BY <1>1, <1>2, <1>5, <2>1 DEF Reading, Live
<1>10. port # 0 /\ KeyboardVector \notin irr
  BY <1>2, <1>9 DEF Service
<1>11. Reading = {n} /\ Storing = {}
  BY <1>2, <1>9, OneHandler
<1>12. Reading' = {} /\ Storing' = {n} /\ Live' = Live
  <2>1. /\ Reading' = (Reading \ {n}) \cup {} /\ Storing' = (Storing \ {n}) \cup {n}
        /\ Live' = (Live \ {n}) \cup {n}
    BY <1>2, <1>4, <1>5, RolesRun
  <2> HIDE DEF n
  <2>2. QED BY <1>9, <1>11, <2>1
<1>13. Service'
  BY <1>1, <1>2, <1>10, <1>12 DEF Service, apic
<1>14. ReadSoFar' = port /\ ReadSoFar = port - 1
  <2> DEFINE k == Len(wire)
  <2>1. pressed \in Nat /\ k \in Nat /\ port = pressed - k
    BY <1>2, <1>10, KeyCounts DEF Transit
  <2>2. ReadSoFar' = pressed - k - 0 /\ ReadSoFar = pressed - k - 1
    BY <1>1, <1>10 DEF ReadSoFar
  <2> HIDE DEF k
  <2>3. QED BY <1>3, <2>1, <2>2
<1>15. Transit'
  <2>1. \A i \in Storing' : frames'[i].reg = ReadSoFar' /\ ReadSoFar' >= 1
    BY <1>3, <1>6, <1>10, <1>12, <1>14
  <2>2. 0 \in 0 .. Keys
    BY Sizes
  <2>3. QED BY <1>1, <1>2, <2>1, <2>2 DEF Transit
<1>16. KeysInOrder'
  <2>1. InHand = 0 /\ InHand' = 1
    <3>1. InHand = Cardinality(Storing)
      BY <1>2, InHandStoring
    <3>2. DOMAIN frames' = 1 .. Len(frames')
      BY <1>8 DEF Stack
    <3>3. InHand' = Cardinality(Storing')
      BY <3>2 DEF InHand, Storing
    <3>4. QED BY <1>11, <1>12, <3>1, <3>3, FS_EmptySet, FS_Singleton
  <2>2. ReadSoFar' - InHand' = ReadSoFar - InHand
    BY <1>3, <1>14, <2>1
  <2>3. QED BY <1>1, <1>2, <2>2 DEF KeysInOrder
<1>17. Cursor'
  BY <1>1, <1>2, <1>6 DEF Cursor, console, Drawing
<1>18. Line'
  <2>1. frames'[1] = frames[1]
    <3>1. Len(frames) # 1
      BY <1>2, <1>5, TopType
    <3>2. QED BY <1>2, <1>4, <3>1, FirstRuns
  <2>2. QED BY <1>1, <1>2, <2>1, LineKept DEF console
<1>19. Rest'
  BY <1>1, <1>2 DEF Rest, apic, console
<1>20. QED BY <1>8, <1>13, <1>15, <1>16, <1>17, <1>18, <1>19 DEF IInv

\* Storing it makes it the next key of the buffer, or drops it when there is
\* no room.
LEMMA StoreKeyStep == ASSUME IInv, StoreKey PROVE IInv'
<1>1. /\ Top.pc = "store" /\ UNCHANGED <<iflag, apic, pressed, wire, port, console, left, env>>
      /\ Goto("put")
      /\ buffer' = IF Len(buffer) < Capacity - 1 THEN Append(buffer, Top.reg) ELSE buffer
  BY DEF StoreKey
<1>2. /\ Stack /\ Service /\ Transit /\ KeysInOrder /\ Rest /\ Cursor /\ Line
      /\ Len(frames) \in Nat /\ Len(frames) >= 1 /\ frames[Len(frames)] = Top
  BY TopType DEF IInv
<1> DEFINE n == Len(frames)
<1>3. Runs(Top.who, "put", Top.text, Top.reg, Top.dot)
  BY <1>1, <1>2, GotoRuns DEF Pcs
<1>4. Top.who = "keyboard" /\ Top.text # <<>>
  BY <1>1, <1>2, TopType DEF Placed, Printing
<1>5. Top'.who = "keyboard" /\ Top'.pc = "put" /\ Top'.text = Top.text /\ Top'.reg = Top.reg
      /\ Len(frames') = Len(frames) /\ Fits(Top'.pc, Top'.dot)
  BY <1>1, <1>3, <1>4, Standing DEF Runs, Drawing, Advancing
<1>6. Well(Len(frames), Top')
  <2>1. Placed(Top')
    BY <1>5 DEF Placed
  <2>2. Printing(Top')
    BY <1>2, <1>5, TopType DEF Printing, Busy, Drawing, Advancing
  <2>3. Registers(Len(frames), Top')
    BY <1>2, <1>5, TopType DEF Registers
  <2>4. QED BY <1>2, <1>4, <1>5, <2>1, <2>2, <2>3, TopType DEF Well
<1>7. Stack'
  BY <1>2, <1>3, <1>6, StackRuns
<1>8. n \in Storing /\ n \in Live
  <2>1. n \in 1 .. Len(frames)
    BY <1>2
  <2>2. QED BY <1>1, <1>2, <1>4, <2>1 DEF Storing, Live
<1>9. Storing = {n} /\ Reading = {}
  BY <1>2, <1>8, OneHandler
<1>10. Reading' = {} /\ Storing' = {} /\ Live' = Live
  <2>1. /\ Reading' = (Reading \ {n}) \cup {} /\ Storing' = (Storing \ {n}) \cup {}
        /\ Live' = (Live \ {n}) \cup {n}
    BY <1>2, <1>3, <1>4, RolesRun
  <2> HIDE DEF n
  <2>2. QED BY <1>8, <1>9, <2>1
<1>11. Service'
  BY <1>1, <1>2, <1>9, <1>10 DEF Service, apic
<1>12. Transit'
  BY <1>1, <1>2, <1>10 DEF Transit
<1>13. KeysInOrder'
  <2>1. InHand = 1 /\ InHand' = 0
    <3>1. InHand = Cardinality(Storing)
      BY <1>2, InHandStoring
    <3>2. DOMAIN frames' = 1 .. Len(frames')
      BY <1>7 DEF Stack
    <3>3. InHand' = Cardinality(Storing')
      BY <3>2 DEF InHand, Storing
    <3>4. QED BY <1>9, <1>10, <3>1, <3>3, FS_EmptySet, FS_Singleton
  <2>2. ReadSoFar' = ReadSoFar /\ ReadSoFar \in Nat /\ Top.reg = ReadSoFar /\ ReadSoFar >= 1
    BY <1>1, <1>2, <1>8, KeyCounts DEF Transit, ReadSoFar
  <2> DEFINE a == ReadSoFar
             c == IF a - 1 < Capacity THEN a - 1 ELSE Capacity - 1
             d == IF a < Capacity THEN a ELSE Capacity - 1
  <2>3. buffer = [i \in 1 .. c |-> i]
    BY <1>2, <2>1 DEF KeysInOrder
  <2>4. KeysInOrder' <=> buffer' = [i \in 1 .. d |-> i]
    <3>1. ReadSoFar' - InHand' = a
      BY <2>1, <2>2
    <3>2. QED BY <3>1 DEF KeysInOrder
  <2>5. a \in Nat /\ a >= 1 /\ Top.reg = a
    BY <2>2
  <2> HIDE DEF a
  <2>6. c \in Nat /\ (c < Capacity - 1 => d = c + 1 /\ a = c + 1) /\ (~(c < Capacity - 1) => d = c)
    BY <2>5, Sizes
  <2> HIDE DEF c, d
  <2>7. Len(buffer) = c /\ Append(buffer, c + 1) = [i \in 1 .. c + 1 |-> i]
    BY <2>3, <2>6, Counting
  <2>8. buffer' = [i \in 1 .. d |-> i]
    BY <1>1, <2>3, <2>5, <2>6, <2>7
  <2>9. QED BY <2>4, <2>8
<1>14. Cursor'
  BY <1>1, <1>2, <1>4, <1>5 DEF Cursor, console, Drawing
<1>15. Line'
  <2>1. frames'[1] = frames[1]
    <3>1. Len(frames) # 1
      BY <1>2, <1>4, TopType
    <3>2. QED BY <1>2, <1>3, <3>1, FirstRuns
  <2>2. QED BY <1>1, <1>2, <2>1, LineKept DEF console
<1>16. Rest'
  BY <1>1, <1>2 DEF Rest, apic, console
<1>17. QED BY <1>7, <1>11, <1>12, <1>13, <1>14, <1>15, <1>16 DEF IInv
\* Whichever vector the end of interrupt ends, no other handler has still to
\* signal its own.
LEMMA EndStep == ASSUME IInv, EndOfInterrupt PROVE IInv'
<1>1. /\ Top.pc = "eoi" /\ UNCHANGED <<iflag, routed, irr, keyboard, console, left, env>>
      /\ Goto("iret") /\ isr' \subseteq isr
  BY DEF EndOfInterrupt
<1>2. /\ Stack /\ Service /\ Transit /\ KeysInOrder /\ Rest /\ Cursor /\ Line
      /\ Len(frames) \in Nat /\ Len(frames) >= 1 /\ frames[Len(frames)] = Top
  BY TopType DEF IInv
<1> DEFINE n == Len(frames)
<1>3. Runs(Top.who, "iret", Top.text, Top.reg, Top.dot)
  BY <1>1, <1>2, GotoRuns DEF Pcs
<1>4. Top.who \in {"keyboard", "timer"}
  BY <1>1, <1>2, TopType DEF Placed
<1>5. Top'.who = Top.who /\ Top'.pc = "iret" /\ Top'.text = Top.text /\ Top'.reg = Top.reg
      /\ Len(frames') = Len(frames) /\ Fits(Top'.pc, Top'.dot)
  BY <1>1, <1>3, Standing DEF Runs, Drawing, Advancing
<1>6. Well(Len(frames), Top')
  <2>1. Placed(Top')
    BY <1>4, <1>5 DEF Placed
  <2>2. Printing(Top')
    BY <1>2, <1>5, TopType DEF Printing, Busy, Drawing, Advancing
  <2>3. Registers(Len(frames), Top')
    BY <1>2, <1>5, TopType DEF Registers
  <2>4. QED BY <1>2, <1>4, <1>5, <2>1, <2>2, <2>3, TopType DEF Well
<1>7. Stack'
  BY <1>2, <1>3, <1>6, StackRuns
<1>8. n \in Live /\ n \notin Reading /\ n \notin Storing
  <2>1. n \in 1 .. Len(frames)
    BY <1>2
  <2>2. QED BY <1>1, <1>2, <1>4, <2>1 DEF Storing, Reading, Live
<1>9. Reading' = Reading /\ Storing' = Storing /\ Live' = {}
  <2>1. /\ Reading' = (Reading \ {n}) \cup {} /\ Storing' = (Storing \ {n}) \cup {}
        /\ Live' = (Live \ {n}) \cup {}
    BY <1>2, <1>3, RolesRun
  <2>2. Live = {n}
    BY <1>2, <1>8 DEF Service
  <2> HIDE DEF n
  <2>3. QED BY <1>8, <2>1, <2>2
<1>10. \A i \in Storing : frames'[i].reg = frames[i].reg
  <2>1. \A i \in Storing : i \in 1 .. n /\ i # n
    BY <1>8 DEF Storing
  <2>2. \A i \in Storing : i \in 1 .. n - 1
    BY <1>2, <2>1
  <2>3. QED BY <2>2, <1>3 DEF Runs
<1>11. Service'
  BY <1>1, <1>2, <1>9 DEF Service, keyboard
<1>12. Transit' /\ KeysInOrder'
  BY <1>1, <1>2, <1>7, <1>9, <1>10, TransitKept DEF keyboard
<1>13. Cursor'
  BY <1>1, <1>2, <1>5 DEF Cursor, console, Drawing
<1>14. Line'
  <2>1. frames'[1] = frames[1]
    <3>1. Len(frames) # 1
      BY <1>2, <1>4, TopType
    <3>2. QED BY <1>2, <1>3, <3>1, FirstRuns
  <2>2. QED BY <1>1, <1>2, <2>1, LineKept DEF console
<1>15. Rest'
  BY <1>1, <1>2 DEF Rest, console
<1>16. QED BY <1>7, <1>11, <1>12, <1>13, <1>14, <1>15 DEF IInv

\* Steps of the devices leave the processor and the console alone.
LEMMA Outside ==
    ASSUME IInv, UNCHANGED <<frames, iflag, routed, console, left>>
    PROVE  /\ Stack' /\ Cursor' /\ Line' /\ Reading' = Reading /\ Storing' = Storing /\ Live' = Live
           /\ InHand' = InHand
<1>1. Stack' /\ Reading' = Reading /\ Storing' = Storing /\ Live' = Live /\ InHand' = InHand
  BY DEF IInv, Stack, Reading, Storing, Live, InHand
<1>2. Cursor'
  BY DEF IInv, Cursor, Top, Char, console, Drawing
<1>3. Line'
  BY LineKept DEF IInv, console
<1>4. QED BY <1>1, <1>2, <1>3

\* A vector nobody routed is raised.
LEMMA StrayStep == ASSUME IInv, Stray PROVE IInv'
<1>1. /\ UNCHANGED <<frames, iflag, routed, isr, keyboard, console, left>>
      /\ env' = [env EXCEPT !.odd = @ + 1]
  BY DEF Stray, cpu
<1>2. PICK v \in StrayVectors : irr' = irr \cup {v}
  BY DEF Stray
<1>3. v # KeyboardVector
  BY ScreenAssumption DEF KeyboardVector
<1>4. Stack /\ Service /\ Transit /\ KeysInOrder /\ Rest
  BY DEF IInv
<1>5. Rest'
  BY <1>1, <1>2, <1>4 DEF Rest, console, Vectors
<1>6. /\ Stack' /\ Cursor' /\ Line' /\ Reading' = Reading /\ Storing' = Storing /\ Live' = Live
      /\ InHand' = InHand
  BY <1>1, <1>5, Outside
<1>7. Service'
  BY <1>1, <1>2, <1>3, <1>4, <1>6 DEF Service, keyboard
<1>8. Transit' /\ KeysInOrder'
  BY <1>1, <1>4, <1>6, TransitKept DEF keyboard
<1>9. QED BY <1>5, <1>6, <1>7, <1>8 DEF IInv

\* A key that is pressed joins the end of the wire.
LEMMA PressStep == ASSUME IInv, Press PROVE IInv'
<1>1. /\ UNCHANGED <<frames, iflag, routed, irr, isr, port, buffer, console, left, env>>
      /\ pressed < Keys /\ pressed' = pressed + 1 /\ wire' = Append(wire, pressed + 1)
  BY DEF Press, cpu, apic
<1>2. Stack /\ Service /\ Transit /\ KeysInOrder /\ Rest
  BY DEF IInv
<1>3. /\ Stack' /\ Cursor' /\ Line' /\ Reading' = Reading /\ Storing' = Storing /\ Live' = Live
      /\ InHand' = InHand
  BY <1>1, Outside
<1>4. Rest' /\ Service'
  BY <1>1, <1>2, <1>3 DEF Rest, Service, console
<1> DEFINE k == Len(wire)
<1>5. /\ pressed \in Nat /\ k \in Nat /\ k <= pressed /\ wire \in Seq(Nat)
      /\ \A i \in 1 .. k : wire[i] = pressed - k + i
      /\ port \in 0 .. Keys
      /\ port # 0 => port = pressed - k
  BY <1>2, KeyCounts DEF Transit
<1>6. /\ wire' \in Seq(Nat) /\ Len(wire') = k + 1
      /\ \A i \in 1 .. k : wire'[i] = wire[i]
      /\ wire'[k + 1] = pressed + 1
  <2>1. pressed + 1 \in Nat /\ wire \in Seq(Nat)
    BY <1>5
  <2>2. QED BY <1>1, <2>1, AppendProperties
<1> HIDE DEF k
<1>7. ReadSoFar' = ReadSoFar
  <2>1. ReadSoFar = pressed - k - (IF port = 0 THEN 0 ELSE 1)
    BY DEF ReadSoFar, k
  <2>2. ReadSoFar' = (pressed + 1) - (k + 1) - (IF port = 0 THEN 0 ELSE 1)
    BY <1>1, <1>6 DEF ReadSoFar
  <2>3. QED BY <1>5, <2>1, <2>2
<1>8. KeysInOrder'
  BY <1>1, <1>2, <1>3, <1>7 DEF KeysInOrder
<1>9. Transit'
  <2>1. pressed' \in 0 .. Keys /\ Len(wire') <= pressed'
    BY <1>1, <1>5, <1>6, Sizes
  <2>2. \A i \in 1 .. k + 1 : wire'[i] = (pressed + 1) - (k + 1) + i
    <3>1. \A i \in 1 .. k : wire'[i] = (pressed + 1) - (k + 1) + i
      BY <1>5, <1>6
    <3>2. wire'[k + 1] = (pressed + 1) - (k + 1) + (k + 1)
      BY <1>5, <1>6
    <3>3. \A i \in 1 .. k + 1 : i = k + 1 \/ i \in 1 .. k
      BY <1>5
    <3>4. QED BY <3>1, <3>2, <3>3
  <2>3. port' # 0 => port' = (pressed + 1) - (k + 1)
    BY <1>1, <1>5
  <2>4. \A i \in Storing' : frames'[i].reg = ReadSoFar' /\ ReadSoFar' >= 1
    BY <1>1, <1>2, <1>3, <1>7 DEF Transit
  <2>5. port' \in 0 .. Keys
    BY <1>1, <1>5
  <2>6. QED BY <1>1, <1>6, <2>1, <2>2, <2>3, <2>4, <2>5 DEF Transit
<1>10. QED BY <1>3, <1>4, <1>8, <1>9 DEF IInv

\* The controller takes the first key of the wire, and requests its interrupt
\* if the entry is unmasked.
LEMMA TransmitStep == ASSUME IInv, Transmit PROVE IInv'
<1>1. /\ UNCHANGED <<frames, iflag, routed, isr, pressed, buffer, console, left>>
      /\ port = 0 /\ wire # <<>> /\ port' = Head(wire) /\ wire' = Tail(wire)
      /\ irr' = IF routed THEN irr \cup {KeyboardVector} ELSE irr
      /\ env' = [env EXCEPT !.lost = @ \/ ~routed]
  BY DEF Transmit, cpu
<1>2. Stack /\ Service /\ Transit /\ KeysInOrder /\ Rest
  BY DEF IInv
<1>3. Rest'
  BY <1>1, <1>2 DEF Rest, console, Vectors
<1>4. /\ Stack' /\ Cursor' /\ Line' /\ Reading' = Reading /\ Storing' = Storing /\ Live' = Live
      /\ InHand' = InHand
  BY <1>1, <1>3, Outside
<1> DEFINE k == Len(wire)
<1>5. /\ pressed \in Nat /\ k \in Nat \ {0} /\ k <= pressed /\ wire \in Seq(Nat) /\ pressed <= Keys
      /\ \A i \in 1 .. k : wire[i] = pressed - k + i
  <2>1. wire \in Seq(Nat) /\ pressed \in 0 .. Keys
    BY <1>2 DEF Transit
  <2>2. k \in Nat \ {0}
    BY <1>1, <2>1, EmptySeq
  <2>3. QED BY <1>2, <2>1, <2>2, KeyCounts, Sizes DEF Transit
<1>6. /\ wire' \in Seq(Nat) /\ Len(wire') = k - 1
      /\ \A i \in 1 .. k - 1 : wire'[i] = wire[i + 1]
  BY <1>1, <1>5, HeadTailProperties
<1>7. port' = wire[1]
  BY <1>1, <1>5
<1> HIDE DEF k
<1>8. port' = pressed - k + 1 /\ port' \in 1 .. Keys
  BY <1>5, <1>7, Sizes
<1>9. Service'
  <2>1. port' # 0 /\ Reading = {}
    BY <1>1, <1>2, <1>8 DEF Service
  <2>2. QED BY <1>1, <1>2, <1>4, <2>1 DEF Service
<1>10. ReadSoFar' = ReadSoFar
  <2>1. ReadSoFar = pressed - k - 0
    BY <1>1 DEF ReadSoFar, k
  <2>2. ReadSoFar' = pressed - (k - 1) - 1
    BY <1>1, <1>6, <1>8 DEF ReadSoFar
  <2>3. QED BY <1>5, <2>1, <2>2
<1>11. KeysInOrder'
  BY <1>1, <1>2, <1>4, <1>10 DEF KeysInOrder
<1>12. Transit'
  <2>1. pressed' \in 0 .. Keys /\ Len(wire') <= pressed' /\ port' = pressed' - Len(wire')
    <3>1. pressed' = pressed /\ Len(wire') = k - 1 /\ port' = pressed - k + 1
      BY <1>1, <1>6, <1>8
    <3>2. pressed \in Nat /\ k \in Nat \ {0} /\ k <= pressed /\ pressed <= Keys /\ Keys \in Nat
      BY <1>5, Sizes
    <3>3. QED BY <3>1, <3>2
  <2>2. \A i \in 1 .. k - 1 : wire'[i] = pressed - (k - 1) + i
    <3>1. \A i \in 1 .. k - 1 : i + 1 \in 1 .. k /\ pressed - k + (i + 1) = pressed - (k - 1) + i
      BY <1>5
    <3>2. QED BY <1>5, <1>6, <3>1
  <2>3. \A i \in Storing' : frames'[i].reg = ReadSoFar' /\ ReadSoFar' >= 1
    BY <1>1, <1>2, <1>4, <1>10 DEF Transit
  <2>4. port' \in 0 .. Keys
    BY <1>8, Sizes
  <2>5. QED BY <1>1, <1>6, <2>1, <2>2, <2>3, <2>4 DEF Transit
<1>13. QED BY <1>3, <1>4, <1>9, <1>11, <1>12 DEF IInv

\* Nothing changes while the processor halts.
LEMMA WaitStep == ASSUME IInv, UNCHANGED vars PROVE IInv'
<1>1. UNCHANGED <<frames, iflag, routed, irr, isr, pressed, wire, port, buffer, console, left, env>>
  BY DEF vars, cpu, apic, keyboard
<1>2. Stack /\ Service /\ Transit /\ KeysInOrder /\ Rest
  BY DEF IInv
<1>3. /\ Stack' /\ Cursor' /\ Line' /\ Reading' = Reading /\ Storing' = Storing /\ Live' = Live
      /\ InHand' = InHand
  BY <1>1, Outside
<1>4. Rest' /\ Service'
  BY <1>1, <1>2, <1>3 DEF Rest, Service, console
<1>5. Transit' /\ KeysInOrder'
  BY <1>1, <1>2, <1>3, TransitKept
<1>6. QED BY <1>3, <1>4, <1>5 DEF IInv
-----------------------------------------------------------------------------
(* The invariant is inductive.                                             *)

\* It holds when kernel_stage2 starts.
LEMMA Initial == Init => IInv
<1> SUFFICES ASSUME Init PROVE IInv
  OBVIOUS
<1> DEFINE f == [who |-> "main", pc |-> "apic", text |-> <<>>, reg |-> 0, dot |-> 1]
<1>1. f \in Frame /\ f.who = "main" /\ f.pc = "apic" /\ f.text = <<>> /\ f.reg = 0
      /\ f.dot = 1
  BY DEF Frame, Pcs
<1>2. frames = <<f>>
  BY DEF Init
<1> HIDE DEF f
<1>3. /\ frames \in Seq(Frame) /\ Len(frames) = 1 /\ frames[1] = f /\ frames # <<>> /\ Top = f
      /\ DOMAIN frames = 1 .. 1
  BY <1>1, <1>2 DEF Top
<1>4. Well(1, f)
  BY <1>1, Sizes DEF Well, Placed, Printing, Registers, Fits, Busy, Drawing, Advancing
<1>5. Stack
  BY <1>3, <1>4 DEF Stack
<1>6. Reading = {} /\ Storing = {} /\ Live = {}
  BY <1>1, <1>3 DEF Reading, Storing, Live
<1>7. Rest
  <2>1. cells \in Buffers /\ screen \in Buffers
    BY DEF Init, Buffers
  <2>2. env \in [odd : Nat, lost : BOOLEAN, unended : BOOLEAN, spoilt : BOOLEAN]
    BY DEF Init
  <2>3. iflag = FALSE /\ routed = FALSE /\ irr = {} /\ isr = {} /\ left = Lines
    BY DEF Init
  <2>4. left \in 0 .. Lines
    BY <2>3, Sizes
  <2>5. iflag \in BOOLEAN /\ routed \in BOOLEAN /\ irr \subseteq Vectors /\ isr \subseteq Vectors
    BY <2>3
  <2>6. QED BY <2>1, <2>2, <2>4, <2>5 DEF Rest
<1>8. Service
  BY <1>6 DEF Service, Init
<1>9. ReadSoFar = 0 /\ Transit
  <2>1. pressed = 0 /\ wire = <<>> /\ port = 0 /\ Len(wire) = 0 /\ wire \in Seq(Nat)
    BY EmptySeq DEF Init
  <2>2. ReadSoFar = 0
    <3>1. ReadSoFar = pressed - Len(wire) - 0
      BY <2>1 DEF ReadSoFar
    <3>2. ReadSoFar = 0 - 0 - 0
      BY <2>1, <3>1, Zenon
    <3>3. QED BY <3>2
  <2>3. QED BY <1>6, <2>1, <2>2, Sizes DEF Transit
<1>10. KeysInOrder
  <2>1. InHand = 0
    BY <1>5, <1>6, InHandStoring, FS_EmptySet
  <2>2. ReadSoFar - InHand = 0 /\ 0 < Capacity
    BY <1>9, <2>1, Sizes
  <2>3. buffer = [i \in 1 .. 0 |-> i]
    BY DEF Init
  <2>4. QED BY <2>2, <2>3 DEF KeysInOrder
<1>11. Cursor
  BY <1>1, <1>3, Sizes DEF Init, Cursor, Drawing
<1>12. Line
  BY <1>1, <1>3, Sizes DEF Init, Line, Busy, Drawing, Advancing
<1>13. QED BY <1>5, <1>7, <1>8, <1>9, <1>10, <1>11, <1>12 DEF IInv

\* Every step keeps the invariant, whatever it interrupts.
LEMMA Inductive == IInv /\ [Next]_vars => IInv'
<1> SUFFICES ASSUME IInv, [Next]_vars PROVE IInv'
  OBVIOUS
<1>1. CASE FindIoApic \/ RouteKeyboard \/ EnableInterrupts
  BY <1>1, BootStep
<1>2. CASE MainPrints \/ MainFaults
  BY <1>2, MainPrintsStep, MainFaultsStep
<1>3. CASE WriteCharacter
  BY <1>3, StartStep, LoadYStep, StoreYStep, ZeroXStep, ClampStep, ScrollStep,
     DrawXStep, DrawYStep, PutPixelStep, LoadXStep, StoreXStep, FlipStep, PrintedStep DEF WriteCharacter
<1>4. CASE ReadPort \/ StoreKey
  BY <1>4, ReadPortStep, StoreKeyStep
<1>5. CASE EndOfInterrupt \/ ReturnFromInterrupt
  BY <1>5, EndStep, ReturnStep
<1>6. CASE Deliver \/ Spurious \/ Stray
  BY <1>6, DeliverStep, SpuriousStep, StrayStep
<1>7. CASE Press \/ Transmit
  BY <1>7, PressStep, TransmitStep
<1>8. CASE Wait \/ UNCHANGED vars
  BY <1>8, WaitStep DEF Wait
<1>9. QED BY <1>1, <1>2, <1>3, <1>4, <1>5, <1>6, <1>7, <1>8 DEF Next, Step

\* The registers, vectors, keys and drawn text of every context on the stack
\* fit together in every reachable state.
THEOREM Invariance == Spec => []IInv
BY Initial, Inductive, PTL DEF Spec

\* However handlers nest, PS2Keyboard stores every key once and in the order
\* in which it was pressed, and drops one only when its buffer is full.
THEOREM KeysStayInOrder == Spec => []KeysInOrder
<1>1. IInv => KeysInOrder
  BY DEF IInv
<1>2. QED BY <1>1, Invariance, PTL

\* The buffer of the keyboard holds keys, and fewer than its capacity.
LEMMA BufferType ==
    ASSUME IInv
    PROVE  buffer \in Seq(1 .. Keys) /\ Len(buffer) < Capacity
<1>1. Stack /\ Service /\ Transit /\ KeysInOrder
  BY DEF IInv
<1>2. InHand \in Nat /\ InHand <= ReadSoFar
  <2>1. InHand = Cardinality(Storing) /\ ReadSoFar \in Nat
    BY <1>1, InHandStoring, KeyCounts
  <2>2. CASE Storing = {}
    BY <2>1, <2>2, FS_EmptySet
  <2>3. ASSUME NEW i \in Storing PROVE InHand \in Nat /\ InHand <= ReadSoFar
    <3>1. Storing = {i}
      BY <1>1, <2>3, OneHandler
    <3>2. InHand = 1 /\ ReadSoFar >= 1
      BY <1>1, <2>1, <2>3, <3>1, FS_Singleton DEF Transit
    <3>3. QED BY <2>1, <3>2
  <2>4. QED BY <2>2, <2>3
<1> DEFINE n == ReadSoFar - InHand
           c == IF n < Capacity THEN n ELSE Capacity - 1
<1>3. ReadSoFar \in Nat /\ ReadSoFar <= Keys
  BY <1>1, KeyCounts, Sizes DEF Transit
<1>4. n \in Nat /\ n <= Keys
  BY <1>2, <1>3, Sizes
<1>5. buffer = [i \in 1 .. c |-> i]
  BY <1>1 DEF KeysInOrder
<1> HIDE DEF n
<1>6. c \in Nat /\ c <= Keys /\ c < Capacity
  BY <1>4, Sizes
<1> HIDE DEF c
<1>7. Len(buffer) = c
  BY <1>5, <1>6
<1>8. \A i \in 1 .. c : i \in 1 .. Keys
  BY <1>6, Sizes
<1>9. buffer \in Seq(1 .. Keys)
  BY <1>5, <1>6, <1>8
<1>10. QED BY <1>6, <1>7, <1>9

\* write_character draws inside the double buffer at any nesting depth, with
\* whatever stale rows its contexts stored, and cursor, registers, vectors and
\* buffers keep their bounds.
THEOREM DrawingInside == Spec => []DrawsInside
<1>1. IInv => DrawsInside
  <2> SUFFICES ASSUME IInv PROVE DrawsInside
    OBVIOUS
  <2>1. Stack /\ Rest /\ Transit /\ Cursor /\ Len(frames) \in Nat /\ Len(frames) >= 1
    BY TopType DEF IInv
  <2>2. \A i \in DOMAIN frames : /\ frames[i].reg \in 0 .. Cells + W + H + Keys + Len(frames)
                                 /\ frames[i].dot \in 1 .. Dots + 1
    <3>1. DOMAIN frames = 1 .. Len(frames)
      BY <2>1 DEF Stack
    <3>2. ASSUME NEW i \in 1 .. Len(frames)
          PROVE  /\ frames[i].reg \in 0 .. Cells + W + H + Keys + Len(frames)
                 /\ frames[i].dot \in 1 .. Dots + 1
      <4>1. frames[i] \in Frame /\ Registers(i, frames[i]) /\ Fits(frames[i].pc, frames[i].dot)
        BY <2>1 DEF Stack, Well
      <4>2. /\ frames[i].reg \in Nat /\ frames[i].reg <= Cells + W + H + Keys + i
            /\ frames[i].dot \in 1 .. Dots + 1
        BY <4>1 DEF Frame, Registers, Fits
      <4>3. QED BY <2>1, <4>2, Sizes
    <3>3. QED BY <3>1, <3>2
  <2>3. irr \subseteq 0 .. 255 /\ isr \subseteq 0 .. 255
    <3>1. \A v \in Vectors : v \in 0 .. 255
      <4>1. \A v \in Vectors : v \in 32 .. 254
        BY GateOf
      <4>2. QED BY <4>1
    <3>2. QED BY <2>1, <3>1 DEF Rest
  <2>4. pressed \in 0 .. Keys /\ port \in 0 .. Keys /\ left \in 0 .. Lines
    BY <2>1 DEF Transit, Rest
  <2>5. x \in 0 .. W /\ y \in 0 .. H + Len(frames)
    BY <2>1, Sizes DEF Cursor, Drawing
  <2>6. {iflag, routed} \subseteq BOOLEAN
    BY <2>1 DEF Rest
  <2>7. TypeOK
    BY <2>2, <2>3, <2>4, <2>5, <2>6, BufferType DEF TypeOK
  <2>8. PixelsInside
    BY <2>1, TopType DEF PixelsInside, Registers
  <2>9. QED BY <2>7, <2>8 DEF DrawsInside
<1>2. QED BY <1>1, Invariance, PTL

-----------------------------------------------------------------------------
(* What a line needs of the ground it is printed on.                       *)

\* The line of main that LineShown is about is being printed, or was the last.
Mine == frames[1].who = "main" /\ left < Lines /\ ~env.spoilt

\* Glyphs of it that are drawn.
Done == IF frames[1].text = <<>> THEN LineLen ELSE LineLen + 1 - Len(frames[1].text)

\* Where the next glyph goes: up to there the buffer is used, from there it
\* is blank.
Front ==
    IF Top.pc \in {"yload", "ystore"} /\ Char # Newline THEN Offset(0, y + 1)
    ELSE IF Top.pc = "xzero" THEN Offset(0, y) ELSE Offset(x, y)

\* The pixels of the running context's glyph that are set.
Part == {Mark(Top, d) : d \in 1 .. Top.dot - 1}

\* k glyphs of the line are legible before `end`, none after the k-th is to be
\* seen there, and from `end` on the buffer is blank but for part of a glyph.
Clean(b, k, end, part) ==
    /\ Legible(b, k, end)
    /\ \A c \in 0 .. Cells - 1 : c < end => \A m \in b[c] : m[1] <= k
    /\ \A c \in 0 .. Cells - 1 : c >= end => b[c] = IF c = end THEN part ELSE {}

\* What the running context holds in its register is still so.
Held ==
    /\ Top.pc = "ystore" => Top.reg = y
    /\ Top.pc \in {"drawy", "xstore"} => Top.reg = x
    /\ Top.pc = "pixel" => Top.reg = Offset(x, y)
    /\ Top.pc \in {"yload", "ystore"} /\ Char # Newline => x = 0

\* No context was interrupted where it is exposed, or before it scrolls.
Below == \A i \in 1 .. Len(frames) - 1 : ~Exposed(frames[i]) /\ frames[i].pc # "scroll"

Ground ==
    Mine => /\ Top.pc # "scroll" /\ Below /\ Held
            /\ Clean(cells, Done, Front, Part)
            /\ frames[1].text = <<>> => Legible(screen, LineLen, Cells)

\* A glyph has a pixel.
LEMMA GlyphHas ==
    ASSUME NEW g PROVE <<g, 1>> \in Glyph(g) /\ Glyph(g) # {}
<1>1. 1 \in 1 .. Dots
  BY Sizes
<1>2. QED BY <1>1 DEF Glyph

\* Glyphs differ.
LEMMA GlyphsDiffer ==
    ASSUME NEW g, NEW h, Glyph(g) = Glyph(h) PROVE g = h
<1>1. <<g, 1>> \in Glyph(h)
  BY GlyphHas
<1>2. PICK d \in 1 .. Dots : <<g, 1>> = <<h, d>>
  BY <1>1 DEF Glyph
<1>3. QED BY <1>2

\* Legible with the cells spelt out.
LEMMA LegibleMeans ==
    ASSUME NEW b, NEW k, NEW end
    PROVE  Legible(b, k, end) <=>
             /\ \A g \in 1 .. k : \E c \in 0 .. Cells - 1 : c < end /\ b[c] = Glyph(g)
             /\ \A g, h \in 1 .. k : \A c, e \in 0 .. Cells - 1 :
                  c < end /\ e < end /\ g < h /\ b[c] = Glyph(g) /\ b[e] = Glyph(h) => c < e
BY DEF Legible

\* Blank ground may be left behind,
LEMMA CleanMoves ==
    ASSUME NEW b, NEW k \in Nat, NEW end \in Nat, NEW later \in Nat, end <= later,
           Clean(b, k, end, {})
    PROVE  Clean(b, k, later, {})
<1>1. Cells \in Nat /\ Legible(b, k, end)
  BY Sizes DEF Clean
<1>2. \A c \in 0 .. Cells - 1 : c >= end => b[c] = {}
  BY DEF Clean
<1>3. \A c \in 0 .. Cells - 1 : \A g : b[c] = Glyph(g) => c < end
  <2> SUFFICES ASSUME NEW c \in 0 .. Cells - 1, NEW g, b[c] = Glyph(g) PROVE c < end
    OBVIOUS
  <2>1. b[c] # {}
    BY GlyphHas
  <2>2. ~(c >= end)
    BY <1>2, <2>1
  <2>3. QED BY <1>1, <2>2
<1>4. \A c \in 0 .. Cells - 1 : (c < end => c < later) /\ (c >= later => c >= end)
  BY <1>1
<1>5. Legible(b, k, later)
  <2>1. \A g \in 1 .. k : \E c \in 0 .. Cells - 1 : c < later /\ b[c] = Glyph(g)
    BY <1>1, <1>4, LegibleMeans
  <2>2. \A g, h \in 1 .. k : \A c, e \in 0 .. Cells - 1 :
          c < later /\ e < later /\ g < h /\ b[c] = Glyph(g) /\ b[e] = Glyph(h) => c < e
    BY <1>1, <1>3, LegibleMeans
  <2>3. QED BY <2>1, <2>2, LegibleMeans
<1>6. \A c \in 0 .. Cells - 1 : c < later => \A m \in b[c] : m[1] <= k
  <2> SUFFICES ASSUME NEW c \in 0 .. Cells - 1, NEW m \in b[c] PROVE m[1] <= k
    OBVIOUS
  <2>1. c < end
    BY <1>1, <1>2
  <2>2. QED BY <2>1 DEF Clean
<1>7. QED BY <1>2, <1>4, <1>5, <1>6 DEF Clean

\* and does not matter on the screen.
LEMMA CleanWhole ==
    ASSUME NEW b, NEW k \in Nat, NEW end \in Nat, Clean(b, k, end, {})
    PROVE  Legible(b, k, Cells)
<1>1. Cells \in Nat /\ Legible(b, k, end)
  BY Sizes DEF Clean
<1>2. \A c \in 0 .. Cells - 1 : c >= end => b[c] = {}
  BY DEF Clean
<1>3. \A c \in 0 .. Cells - 1 : \A g : b[c] = Glyph(g) => c < end
  <2> SUFFICES ASSUME NEW c \in 0 .. Cells - 1, NEW g, b[c] = Glyph(g) PROVE c < end
    OBVIOUS
  <2>1. b[c] # {}
    BY GlyphHas
  <2>2. ~(c >= end)
    BY <1>2, <2>1
  <2>3. QED BY <1>1, <2>2
<1>4. \A c \in 0 .. Cells - 1 : c < Cells
  BY <1>1
<1>5. \A g \in 1 .. k : \E c \in 0 .. Cells - 1 : c < Cells /\ b[c] = Glyph(g)
  BY <1>1, <1>4, LegibleMeans
<1>6. \A g, h \in 1 .. k : \A c, e \in 0 .. Cells - 1 :
        c < Cells /\ e < Cells /\ g < h /\ b[c] = Glyph(g) /\ b[e] = Glyph(h) => c < e
  BY <1>1, <1>3, LegibleMeans
<1>7. QED BY <1>5, <1>6, LegibleMeans

\* A pixel at the front.
LEMMA CleanAdds ==
    ASSUME NEW b \in Buffers, NEW k \in Nat, NEW end \in 0 .. Cells - 1, NEW part, NEW m,
           Clean(b, k, end, part)
    PROVE  Clean([b EXCEPT ![end] = @ \cup {m}], k, end, part \cup {m})
<1> DEFINE a == [b EXCEPT ![end] = @ \cup {m}]
<1>1. /\ Cells \in Nat /\ Legible(b, k, end)
      /\ \A c \in 0 .. Cells - 1 : c < end => \A q \in b[c] : q[1] <= k
      /\ \A c \in 0 .. Cells - 1 : c >= end => b[c] = IF c = end THEN part ELSE {}
  BY Sizes DEF Clean
<1>2. \A c \in 0 .. Cells - 1 : a[c] = IF c = end THEN b[c] \cup {m} ELSE b[c]
  BY DEF Buffers
<1>3. \A c \in 0 .. Cells - 1 : c < end => a[c] = b[c]
  BY <1>1, <1>2
<1> HIDE DEF a
<1>4. Legible(a, k, end)
  BY <1>1, <1>3, LegibleMeans
<1>5. \A c \in 0 .. Cells - 1 : c < end => \A q \in a[c] : q[1] <= k
  BY <1>1, <1>3
<1>6. \A c \in 0 .. Cells - 1 : c >= end => a[c] = IF c = end THEN part \cup {m} ELSE {}
  BY <1>1, <1>2
<1>7. QED BY <1>4, <1>5, <1>6 DEF Clean, a

\* A glyph of a handler is whole.
LEMMA CleanPasses ==
    ASSUME NEW b, NEW k \in Nat, NEW end \in 0 .. Cells - 1, NEW part,
           \A m \in part : m[1] = 0, Clean(b, k, end, part)
    PROVE  Clean(b, k, end + 1, {})
<1>1. /\ Cells \in Nat /\ Legible(b, k, end)
      /\ \A c \in 0 .. Cells - 1 : c < end => \A q \in b[c] : q[1] <= k
      /\ \A c \in 0 .. Cells - 1 : c >= end => b[c] = IF c = end THEN part ELSE {}
  BY Sizes DEF Clean
<1>2. \A c \in 0 .. Cells - 1 : /\ c < end + 1 <=> c < end \/ c = end
                                /\ c >= end + 1 <=> c >= end /\ c # end
  BY <1>1
<1>3. \A g \in 1 .. k : part # Glyph(g)
  <2> SUFFICES ASSUME NEW g \in 1 .. k, part = Glyph(g) PROVE FALSE
    OBVIOUS
  <2>1. <<g, 1>>[1] = 0
    BY GlyphHas
  <2>2. QED BY <2>1
<1>4. b[end] = part
  BY <1>1
<1>5. Legible(b, k, end + 1)
  <2>1. \A g \in 1 .. k : \E c \in 0 .. Cells - 1 : c < end + 1 /\ b[c] = Glyph(g)
    BY <1>1, <1>2, LegibleMeans
  <2>2. \A g, h \in 1 .. k : \A c, e \in 0 .. Cells - 1 :
          c < end + 1 /\ e < end + 1 /\ g < h /\ b[c] = Glyph(g) /\ b[e] = Glyph(h) => c < e
    BY <1>1, <1>2, <1>3, <1>4, LegibleMeans
  <2>3. QED BY <2>1, <2>2, LegibleMeans
<1>6. \A c \in 0 .. Cells - 1 : c < end + 1 => \A q \in b[c] : q[1] <= k
  BY <1>1, <1>2, <1>4
<1>7. \A c \in 0 .. Cells - 1 : c >= end + 1 => b[c] = IF c = end + 1 THEN {} ELSE {}
  BY <1>1, <1>2
<1>8. QED BY <1>5, <1>6, <1>7 DEF Clean

\* A glyph of main is the next of its line.
LEMMA CleanNext ==
    ASSUME NEW b \in Buffers, NEW k \in Nat, NEW end \in 0 .. Cells - 1,
           Clean(b, k, end, Glyph(k + 1))
    PROVE  Clean(b, k + 1, end + 1, {})
<1>1. /\ Cells \in Nat /\ Legible(b, k, end)
      /\ \A c \in 0 .. Cells - 1 : c < end => \A q \in b[c] : q[1] <= k
      /\ \A c \in 0 .. Cells - 1 : c >= end => b[c] = IF c = end THEN Glyph(k + 1) ELSE {}
  BY Sizes DEF Clean
<1>2. \A c \in 0 .. Cells - 1 : /\ c < end + 1 <=> c < end \/ c = end
                                /\ c >= end + 1 <=> c >= end /\ c # end
  BY <1>1
<1>3. b[end] = Glyph(k + 1) /\ end < end + 1
  BY <1>1
<1>4. \A c \in 0 .. Cells - 1 : c < end => b[c] # Glyph(k + 1)
  <2> SUFFICES ASSUME NEW c \in 0 .. Cells - 1, c < end, b[c] = Glyph(k + 1) PROVE FALSE
    OBVIOUS
  <2> DEFINE q == <<k + 1, 1>>
  <2>1. q \in b[c]
    BY GlyphHas
  <2>2. q[1] = k + 1
    OBVIOUS
  <2> HIDE DEF q
  <2>3. q[1] <= k
    BY <1>1, <2>1
  <2>4. QED BY <2>2, <2>3
<1>5. \A g \in 1 .. k + 1 : g = k + 1 \/ g \in 1 .. k
  OBVIOUS
<1>6. \A g \in 1 .. k : b[end] # Glyph(g)
  <2>1. \A g \in 1 .. k : g # k + 1
    OBVIOUS
  <2>2. QED BY <1>3, <2>1, GlyphsDiffer
<1>7. Legible(b, k + 1, end + 1)
  <2>1. \A g \in 1 .. k + 1 : \E c \in 0 .. Cells - 1 : c < end + 1 /\ b[c] = Glyph(g)
    <3> SUFFICES ASSUME NEW g \in 1 .. k + 1
                 PROVE  \E c \in 0 .. Cells - 1 : c < end + 1 /\ b[c] = Glyph(g)
      OBVIOUS
    <3>1. CASE g = k + 1
      BY <1>3, <3>1
    <3>2. CASE g \in 1 .. k
      BY <1>1, <1>2, <3>2, LegibleMeans
    <3>3. QED BY <1>5, <3>1, <3>2
  <2>2. ASSUME NEW g \in 1 .. k + 1, NEW h \in 1 .. k + 1,
               NEW c \in 0 .. Cells - 1, NEW e \in 0 .. Cells - 1,
               c < end + 1, e < end + 1, g < h, b[c] = Glyph(g), b[e] = Glyph(h)
        PROVE  c < e
    <3>1. g \in 1 .. k /\ c < end
      <4>1. g \in 1 .. k
        BY <2>2
      <4>2. c # end
        BY <1>6, <2>2, <4>1
      <4>3. QED BY <1>2, <2>2, <4>1, <4>2
    <3>2. CASE h = k + 1
      <4>1. e = end
        BY <1>2, <1>4, <2>2, <3>2
      <4>2. QED BY <3>1, <4>1
    <3>3. CASE h \in 1 .. k
      <4>1. e # end
        BY <1>6, <2>2, <3>3
      <4>2. e < end
        BY <1>2, <2>2, <4>1
      <4>3. QED BY <1>1, <2>2, <3>1, <3>3, <4>2, LegibleMeans
    <3>4. QED BY <1>5, <3>2, <3>3
  <2>3. QED BY <2>1, <2>2, LegibleMeans
<1>8. \A c \in 0 .. Cells - 1 : c < end + 1 => \A q \in b[c] : q[1] <= k + 1
  <2> SUFFICES ASSUME NEW c \in 0 .. Cells - 1, c < end + 1, NEW q \in b[c] PROVE q[1] <= k + 1
    OBVIOUS
  <2>1. CASE c < end
    <3>1. q[1] <= k /\ q[1] \in Nat
      BY <1>1, <2>1 DEF Buffers
    <3>2. QED BY <3>1
  <2>2. CASE c = end
    <3>1. q[1] = k + 1
      BY <1>3, <2>2 DEF Glyph
    <3>2. QED BY <3>1
  <2>3. QED BY <1>2, <2>1, <2>2
<1>9. \A c \in 0 .. Cells - 1 : c >= end + 1 => b[c] = IF c = end + 1 THEN {} ELSE {}
  BY <1>1, <1>2
<1>10. QED BY <1>7, <1>8, <1>9 DEF Clean

\* The measures of the ground.
LEMMA GroundType ==
    ASSUME IInv
    PROVE  /\ Stack /\ Cursor /\ Rest /\ Line /\ x \in 0 .. W /\ y \in Nat /\ cells \in Buffers
           /\ Len(frames) \in Nat /\ Len(frames) >= 1
           /\ Front \in Nat /\ (Mine => Done \in Nat)
<1>1. /\ Stack /\ Cursor /\ Rest /\ Line /\ x \in 0 .. W /\ y \in Nat /\ cells \in Buffers
      /\ Len(frames) \in Nat /\ Len(frames) >= 1
  BY TopType, Sizes DEF IInv, Rest, Cursor
<1>2. Front \in Nat
  <2>1. 0 \in 0 .. W /\ y + 1 \in Nat
    BY <1>1, Sizes
  <2>2. Offset(x, y) \in Nat /\ Offset(0, y) \in Nat /\ Offset(0, y + 1) \in Nat
    BY <1>1, <2>1, Offsets
  <2>3. QED BY <2>2 DEF Front
<1>3. Mine => Done \in Nat
  <2> SUFFICES ASSUME Mine PROVE Done \in Nat
    OBVIOUS
  <2>1. frames[1] \in Frame
    BY <1>1 DEF Stack
  <2>2. frames[1].text \in Seq(Nat) /\ Len(frames[1].text) <= LineLen + 1
    BY <1>1, <2>1 DEF Line, Mine, Frame
  <2> DEFINE n == Len(frames[1].text)
  <2>3. n \in Nat /\ n <= LineLen + 1
    BY <2>2
  <2>4. Done = IF frames[1].text = <<>> THEN LineLen ELSE LineLen + 1 - n
    BY DEF Done
  <2> HIDE DEF n
  <2>5. QED BY <2>3, <2>4, Sizes
<1>4. QED BY <1>1, <1>2, <1>3

\* The context on top goes on with the character it is at.
LEMMA TextStays ==
    ASSUME IInv, NEW p, NEW r, NEW d, Runs(Top.who, p, Top.text, r, d)
    PROVE  /\ frames'[1].who = frames[1].who /\ frames'[1].text = frames[1].text
           /\ Done' = Done /\ Char' = Char /\ (Below => Below')
           /\ Top'.pc = p /\ Top'.reg = r /\ Top'.dot = d
           /\ \A e : Mark(Top', e) = Mark(Top, e)
<1>1. /\ Stack /\ Top'.who = Top.who /\ Top'.text = Top.text
      /\ Top'.pc = p /\ Top'.reg = r /\ Top'.dot = d
  BY DEF Runs, IInv
<1>2. frames'[1].who = frames[1].who /\ frames'[1].text = frames[1].text
  BY <1>1, FirstRuns
<1>3. Done' = Done /\ Char' = Char
  BY <1>1, <1>2 DEF Done, Char
<1>4. \A e : Mark(Top', e) = Mark(Top, e)
  BY <1>1 DEF Mark
<1>5. Below => Below'
  BY DEF Below, Runs
<1>6. QED BY <1>1, <1>2, <1>3, <1>4, <1>5

\* It keeps the ground, then, if its register, the front and the part of the
\* glyph that is drawn go together.
LEMMA GroundStays ==
    ASSUME IInv, Ground, NEW p, NEW r, NEW d, Runs(Top.who, p, Top.text, r, d), p # "scroll",
           UNCHANGED <<left, screen>>, env.spoilt => env'.spoilt,
           Mine /\ Held /\ Clean(cells, Done, Front, Part) => Held' /\ Clean(cells', Done, Front', Part')
    PROVE  Ground'
<1> SUFFICES ASSUME Mine'
             PROVE  /\ Top'.pc # "scroll" /\ Below' /\ Held'
                    /\ Clean(cells', Done', Front', Part')
                    /\ frames'[1].text = <<>> => Legible(screen', LineLen, Cells)
  BY DEF Ground
<1>1. /\ frames'[1].who = frames[1].who /\ frames'[1].text = frames[1].text
      /\ Done' = Done /\ (Below => Below') /\ Top'.pc = p
  BY TextStays
<1>2. Mine
  BY <1>1 DEF Mine
<1>3. QED BY <1>1, <1>2 DEF Ground

\* In particular where it only moves on.
LEMMA GroundSame ==
    ASSUME IInv, Ground, NEW p, NEW r, Runs(Top.who, p, Top.text, r, Top.dot), p # "scroll",
           UNCHANGED <<left, screen, cells>>, env.spoilt => env'.spoilt,
           Held => Held' /\ Front' = Front
    PROVE  Ground'
<1>1. Part' = Part
  BY TextStays DEF Part
<1>2. QED BY <1>1, GroundStays

\* The steps of write_character up to the pixels.
LEMMA StartGround == ASSUME IInv, Ground, StartCharacter PROVE Ground'
<1>1. /\ Top.pc = "put" /\ UNCHANGED <<y, cells, screen, left, env>>
      /\ \/ Goto("yload") /\ Char = Newline /\ x' = x
         \/ Goto("yload") /\ Char # Newline /\ x + 1 > W /\ x' = 0
         \/ Goto("clamp") /\ Char # Newline /\ x' = x
  BY DEF StartCharacter, InText, Moves
<1>2. Stack /\ x \in 0 .. W /\ y \in Nat
  BY GroundType
<1>3. ASSUME NEW p \in {"yload", "clamp"}, Goto(p),
             (x' = x /\ (Char = Newline \/ p = "clamp")) \/ (p = "yload" /\ Char # Newline /\ x = W /\ x' = 0)
      PROVE  Ground'
  <2>1. Runs(Top.who, p, Top.text, Top.reg, Top.dot)
    BY <1>2, <1>3, GotoRuns DEF Pcs, Busy
  <2>2. Char' = Char /\ Top'.pc = p
    BY <2>1, TextStays
  <2>3. Front = Offset(x, y)
    BY <1>1 DEF Front
  <2>4. CASE x' = x /\ (Char = Newline \/ p = "clamp")
    <3>1. Front' = Front /\ Held'
      BY <1>1, <1>3, <2>2, <2>3, <2>4 DEF Front, Held
    <3>2. QED BY <1>1, <1>3, <2>1, <3>1, GroundSame
  <2>5. CASE p = "yload" /\ Char # Newline /\ x = W /\ x' = 0
    <3>1. Front' = Offset(0, y + 1) /\ Held'
      BY <1>1, <2>2, <2>5 DEF Front, Held
    <3>2. Offset(x, y) = Offset(0, y + 1)
      BY <1>2, <2>5, Offsets
    <3>3. QED BY <1>1, <1>3, <2>1, <2>3, <3>1, <3>2, GroundSame
  <2>6. QED BY <1>3, <2>4, <2>5
<1>4. x + 1 > W => x = W
  BY <1>2, Sizes
<1>5. QED BY <1>1, <1>3, <1>4

\* The row is loaded, stored, and the column reset.
LEMMA RowGround == ASSUME IInv, Ground, LoadY \/ StoreY \/ ZeroX PROVE Ground'
<1>1. Stack /\ x \in 0 .. W /\ y \in Nat /\ Front \in Nat /\ (Mine => Done \in Nat)
  BY GroundType
<1>2. CASE LoadY
  <2>1. Top.pc = "yload" /\ UNCHANGED <<x, y, cells, screen, left, env>>
    BY <1>2 DEF LoadY, Moves, console
  <2>2. Runs(Top.who, "ystore", Top.text, y, Top.dot)
    BY <1>1, <1>2, LoadRuns DEF LoadY, Pcs, Busy
  <2>3. Char' = Char /\ Top'.pc = "ystore" /\ Top'.reg = y
    BY <2>2, TextStays
  <2>4. Front' = Front /\ (Held => Held')
    BY <2>1, <2>3 DEF Front, Held
  <2>5. QED BY <2>1, <2>2, <2>4, GroundSame
<1>3. CASE StoreY
  <2> DEFINE p == IF Char = Newline THEN "xzero" ELSE "clamp"
  <2>1. /\ Top.pc = "ystore" /\ UNCHANGED <<x, cells, screen, left, env>>
        /\ Goto(p) /\ y' = Top.reg + 1
    BY <1>3 DEF StoreY, Moves
  <2>2. p \in {"xzero", "clamp"} /\ (p = "xzero" <=> Char = Newline)
    OBVIOUS
  <2> HIDE DEF p
  <2>3. Runs(Top.who, p, Top.text, Top.reg, Top.dot) /\ Top.dot = 1
    BY <1>1, <2>1, <2>2, GotoRuns, Standing DEF Pcs, Busy, Drawing, Advancing
  <2>4. Char' = Char /\ Top'.pc = p /\ Top'.dot = Top.dot
    BY <2>3, TextStays
  <2>5. CASE Char # Newline
    <3>1. Held => Held' /\ Front' = Front
      BY <2>1, <2>2, <2>4, <2>5 DEF Front, Held
    <3>2. QED BY <2>1, <2>2, <2>3, <3>1, GroundSame
  <2>6. CASE Char = Newline
    <3>1. Front = Offset(x, y) /\ Held'
      BY <2>1, <2>2, <2>4, <2>6 DEF Front, Held
    <3>2. Held => Front' = Offset(0, y + 1)
      BY <2>1, <2>2, <2>4, <2>6 DEF Front, Held
    <3>3. Offset(x, y) <= Offset(0, y + 1) /\ Offset(0, y + 1) \in Nat
      <4>1. 0 \in 0 .. W /\ y + 1 \in Nat
        BY <1>1, Sizes
      <4>2. QED BY <1>1, <4>1, Offsets
    <3>4. Part = {} /\ Part' = {}
      BY <2>3, <2>4 DEF Part
    <3>5. ASSUME Mine, Held, Clean(cells, Done, Front, Part)
          PROVE  Held' /\ Clean(cells', Done, Front', Part')
      <4>1. Clean(cells, Done, Offset(0, y + 1), {})
        BY <1>1, <3>1, <3>3, <3>4, <3>5, CleanMoves
      <4>2. QED BY <2>1, <3>1, <3>2, <3>4, <3>5, <4>1
    <3>6. QED BY <2>1, <2>2, <2>3, <3>5, GroundStays
  <2>7. QED BY <2>5, <2>6
<1>4. CASE ZeroX
  <2>1. /\ Top.pc = "xzero" /\ UNCHANGED <<y, cells, screen, left, env>>
        /\ Goto("clamp") /\ x' = 0
    BY <1>4 DEF ZeroX, Moves
  <2>2. Runs(Top.who, "clamp", Top.text, Top.reg, Top.dot)
    BY <1>1, <2>1, GotoRuns DEF Pcs, Busy
  <2>3. Char' = Char /\ Top'.pc = "clamp"
    BY <2>2, TextStays
  <2>4. Front' = Front /\ Held'
    BY <2>1, <2>3 DEF Front, Held
  <2>5. QED BY <2>1, <2>2, <2>4, GroundSame
<1>5. QED BY <1>2, <1>3, <1>4

\* A row beyond the last spoils the line; a row of the screen does nothing.
LEMMA ClampGround == ASSUME IInv, Ground, Clamp \/ Scroll PROVE Ground'
<1>1. CASE Scroll
  <2>1. Top.pc = "scroll" /\ left' = left /\ env' = env /\ Goto(AfterClamp)
    BY <1>1 DEF Scroll, Moves
  <2>2. AfterClamp \in Pcs
    BY DEF AfterClamp, Pcs, Busy, Drawing
  <2>3. Runs(Top.who, AfterClamp, Top.text, Top.reg, Top.dot)
    BY <2>1, <2>2, GotoRuns DEF IInv
  <2>4. frames'[1].who = frames[1].who
    BY <2>3, TextStays
  <2>5. ~Mine
    BY <2>1 DEF Ground
  <2>6. QED BY <2>1, <2>4, <2>5 DEF Ground, Mine
<1>2. CASE Clamp
  <2>1. /\ Top.pc = "clamp" /\ UNCHANGED <<x, cells, screen, left>>
        /\ \/ env' = [env EXCEPT !.spoilt = TRUE]
           \/ Goto(AfterClamp) /\ UNCHANGED <<y, env>>
    BY <1>2 DEF Clamp
  <2>2. CASE env' = [env EXCEPT !.spoilt = TRUE]
    <3>1. env'.spoilt
      BY <2>2 DEF IInv, Rest
    <3>2. QED BY <3>1 DEF Ground, Mine
  <2>3. CASE Goto(AfterClamp) /\ UNCHANGED <<y, env>>
    <3>1. AfterClamp \in {"flip", "drawx"}
      BY DEF AfterClamp
    <3> DEFINE p == AfterClamp
    <3> HIDE DEF p
    <3>2. p \in {"flip", "drawx"} /\ Goto(p)
      BY <2>3, <3>1 DEF p
    <3>3. Runs(Top.who, p, Top.text, Top.reg, Top.dot)
      BY <3>2, GotoRuns DEF IInv, Pcs, Busy, Drawing
    <3>4. Char' = Char /\ Top'.pc = p
      BY <3>3, TextStays
    <3>5. Front' = Front /\ Held'
      BY <2>1, <2>3, <3>2, <3>4 DEF Front, Held
    <3>6. QED BY <2>1, <2>3, <3>2, <3>3, <3>5, GroundSame
  <2>4. QED BY <2>1, <2>2, <2>3
<1>3. QED BY <1>1, <1>2

\* The pixels of a glyph go where the glyph began.
LEMMA PixelGround == ASSUME IInv, Ground, DrawX \/ DrawY \/ PutPixel PROVE Ground'
<1>1. /\ Stack /\ Cursor /\ x \in 0 .. W /\ y \in Nat /\ cells \in Buffers
      /\ (Mine => Done \in Nat)
  BY GroundType
<1>2. CASE DrawX
  <2>1. Top.pc = "drawx" /\ UNCHANGED <<x, y, cells, screen, left, env>> /\ x \in Nat
    BY <1>1, <1>2 DEF DrawX, Moves, console
  <2>2. Runs(Top.who, "drawy", Top.text, x, Top.dot)
    BY <1>1, <1>2, <2>1, LoadRuns DEF DrawX, Pcs, Busy, Drawing
  <2>3. Top'.pc = "drawy" /\ Top'.reg = x
    BY <2>2, TextStays
  <2>4. Front' = Front /\ Held'
    BY <2>1, <2>3 DEF Front, Held
  <2>5. QED BY <2>1, <2>2, <2>4, GroundSame
<1>3. CASE DrawY
  <2> DEFINE r == Offset(Top.reg, y)
  <2>1. /\ Top.pc = "drawy" /\ UNCHANGED <<x, y, cells, screen, left, env>>
        /\ SetTop([Top EXCEPT !.pc = "pixel", !.reg = r])
    BY <1>3 DEF DrawY, Moves, console
  <2>2. r \in Nat
    <3>1. Top.reg \in 0 .. W
      <4>1. Top.reg \in Nat /\ Top.reg + 1 <= W
        BY <1>1, <2>1, TopType DEF Registers
      <4>2. QED BY <4>1, Sizes
    <3>2. QED BY <1>1, <3>1, Offsets
  <2>3. Held => r = Offset(x, y)
    BY <2>1 DEF Held
  <2> HIDE DEF r
  <2>4. Runs(Top.who, "pixel", Top.text, r, Top.dot)
    BY <1>1, <2>1, <2>2, LoadRuns DEF Pcs, Busy, Drawing
  <2>5. Top'.pc = "pixel" /\ Top'.reg = r
    BY <2>4, TextStays
  <2>6. Front' = Front /\ (Held => Held')
    BY <2>1, <2>3, <2>5 DEF Front, Held
  <2>7. QED BY <2>1, <2>4, <2>6, GroundSame
<1>4. CASE PutPixel
  <2> DEFINE p == IF Top.dot = Dots THEN "xload" ELSE "drawx"
             f == [Top EXCEPT !.pc = p, !.dot = Top.dot + 1]
  <2>1. /\ Top.pc = "pixel" /\ UNCHANGED <<x, y, screen, left, env>> /\ SetTop(f)
        /\ cells' = [cells EXCEPT ![Top.reg] = @ \cup {Mark(Top, Top.dot)}]
    BY <1>4 DEF PutPixel, Moves
  <2>2. p \in {"xload", "drawx"} /\ Top \in Frame /\ Top.dot \in Nat /\ Top.dot >= 1 /\ Top.dot + 1 \in Nat
    BY <1>1, TopType, Sizes DEF Fits
  <2> HIDE DEF p
  <2>3. /\ f \in Frame /\ f.who = Top.who /\ f.pc = p /\ f.text = Top.text /\ f.reg = Top.reg
        /\ f.dot = Top.dot + 1
    BY <2>2 DEF Frame, Pcs, Busy, Drawing, Advancing
  <2> HIDE DEF f
  <2>4. Runs(Top.who, p, Top.text, Top.reg, Top.dot + 1)
    BY <1>1, <2>1, <2>3, SetTopRuns
  <2>5. /\ Top'.pc = p /\ Top'.dot = Top.dot + 1
        /\ \A e : Mark(Top', e) = Mark(Top, e)
    BY <2>4, TextStays
  <2>6. Part' = Part \cup {Mark(Top, Top.dot)}
    <3> DEFINE n == Top.dot
    <3>1. n \in Nat /\ n >= 1
      BY <2>2
    <3>2. Part' = {Mark(Top, e) : e \in 1 .. (n + 1) - 1} /\ Part = {Mark(Top, e) : e \in 1 .. n - 1}
      BY <2>5 DEF Part
    <3> HIDE DEF n
    <3>3. 1 .. (n + 1) - 1 = (1 .. n - 1) \cup {n}
      BY <3>1
    <3>4. Part' = {Mark(Top, e) : e \in (1 .. n - 1) \cup {n}}
      BY <3>2, <3>3, Zenon
    <3>5. {Mark(Top, e) : e \in (1 .. n - 1) \cup {n}} = {Mark(Top, e) : e \in 1 .. n - 1} \cup {Mark(Top, n)}
      OBVIOUS
    <3>6. QED BY <3>2, <3>4, <3>5 DEF n
  <2>7. Front' = Front /\ Front = Offset(x, y) /\ Held'
    BY <2>1, <2>2, <2>5 DEF Front, Held
  <2>8. Top.reg \in 0 .. Cells - 1
    BY <1>1, <2>1, TopType, Sizes DEF Registers
  <2>9. ASSUME Mine, Held, Clean(cells, Done, Front, Part)
        PROVE  Held' /\ Clean(cells', Done, Front', Part')
    <3>1. Front = Top.reg
      BY <2>1, <2>7, <2>9 DEF Held
    <3>2. Clean([cells EXCEPT ![Top.reg] = @ \cup {Mark(Top, Top.dot)}], Done, Top.reg,
                Part \cup {Mark(Top, Top.dot)})
      BY <1>1, <2>8, <2>9, <3>1, CleanAdds
    <3>3. QED BY <2>1, <2>6, <2>7, <3>1, <3>2
  <2>10. QED BY <2>1, <2>2, <2>4, <2>9, GroundStays
<1>5. QED BY <1>2, <1>3, <1>4

\* Steps that leave the console alone.
LEMMA QuietGround ==
    ASSUME IInv, Ground, LoadX \/ Printed \/ ReadPort \/ StoreKey \/ EndOfInterrupt PROVE Ground'
<1>1. Stack /\ x \in 0 .. W /\ y \in Nat /\ Rest /\ Transit
  BY GroundType DEF IInv
<1>2. CASE LoadX
  <2>1. Top.pc = "xload" /\ UNCHANGED <<x, y, cells, screen, left, env>> /\ x \in Nat
    BY <1>1, <1>2 DEF LoadX, Moves, console
  <2>2. Runs(Top.who, "xstore", Top.text, x, Top.dot)
    BY <1>1, <1>2, <2>1, LoadRuns DEF LoadX, Pcs, Busy, Advancing
  <2>3. Top'.pc = "xstore" /\ Top'.reg = x
    BY <2>2, TextStays
  <2>4. Front' = Front /\ Held'
    BY <2>1, <2>3 DEF Front, Held
  <2>5. QED BY <2>1, <2>2, <2>4, GroundSame
<1>3. ASSUME NEW p \in {"idle", "stop", "eoi", "iret", "hlt", "put", "store"}, NEW r,
             Top.pc \in {"put", "in", "store", "eoi"}, Runs(Top.who, p, Top.text, r, Top.dot),
             UNCHANGED <<console, left, env>>
      PROVE  Ground'
  <2>1. Top'.pc = p /\ UNCHANGED <<x, y, cells, screen>>
    BY <1>3, TextStays DEF console
  <2>2. Front' = Front /\ Held'
    BY <1>3, <2>1 DEF Front, Held
  <2>3. QED BY <1>3, <2>1, <2>2, GroundSame
<1>4. CASE Printed
  <2> DEFINE p == AfterText(Top.who)
  <2>1. Top.pc = "put" /\ Goto(p) /\ UNCHANGED <<console, left, env>>
    BY <1>4 DEF Printed
  <2>2. Top.who \in {"main", "panic", "keyboard", "timer", "not_implemented", "exception"}
    BY <1>1, TopType DEF Frame, Handlers
  <2>3. p \in {"idle", "stop", "eoi", "iret", "hlt"}
    BY <2>2 DEF AfterText
  <2> HIDE DEF p
  <2>4. Runs(Top.who, p, Top.text, Top.reg, Top.dot)
    BY <1>1, <2>1, <2>3, GotoRuns DEF Pcs
  <2>5. QED BY <1>3, <2>1, <2>3, <2>4
<1>5. CASE ReadPort
  <2>1. port \in Nat
    BY <1>1, Sizes DEF Transit
  <2>2. Runs(Top.who, "store", Top.text, port, Top.dot)
    BY <1>1, <1>5, <2>1, LoadRuns DEF ReadPort, Pcs
  <2>3. Top.pc = "in" /\ UNCHANGED <<console, left, env>>
    BY <1>5 DEF ReadPort
  <2>4. QED BY <1>3, <2>2, <2>3
<1>6. CASE StoreKey
  <2>1. Top.pc = "store" /\ Goto("put") /\ UNCHANGED <<console, left, env>>
    BY <1>6 DEF StoreKey
  <2>2. Runs(Top.who, "put", Top.text, Top.reg, Top.dot)
    BY <1>1, <2>1, GotoRuns DEF Pcs
  <2>3. QED BY <1>3, <2>1, <2>2
<1>7. CASE EndOfInterrupt
  <2>1. Top.pc = "eoi" /\ Goto("iret") /\ UNCHANGED <<console, left, env>>
    BY <1>7 DEF EndOfInterrupt
  <2>2. Runs(Top.who, "iret", Top.text, Top.reg, Top.dot)
    BY <1>1, <2>1, GotoRuns DEF Pcs
  <2>3. QED BY <1>3, <2>1, <2>2
<1>8. QED BY <1>2, <1>4, <1>5, <1>6, <1>7

\* A context that is done with a character: the text of main, if it is main.
LEMMA NextCharacter ==
    ASSUME IInv, Runs(Top.who, "put", Tail(Top.text), Top.reg, 1), Top.pc \in Busy, UNCHANGED left
    PROVE  /\ frames'[1].who = frames[1].who /\ (Below => Below')
           /\ Top'.pc = "put" /\ Part' = {}
           /\ \/ Top.who # "main" /\ frames'[1].text = frames[1].text /\ Done' = Done
              \/ Top.who = "panic"
              \/ /\ Top.who = "main" /\ left < Lines
                 /\ Char = Newline => frames'[1].text = <<>> /\ Done = LineLen /\ Done' = LineLen
                 /\ Char # Newline => /\ frames'[1].text # <<>> /\ Char = Done + 1
                                      /\ Done' = Done + 1
<1>1. Stack /\ Top.text # <<>> /\ Len(frames) \in Nat /\ Len(frames) >= 1 /\ Top.text \in Seq(Nat)
  BY Inside
<1>2. /\ Top'.who = Top.who /\ Top'.pc = "put" /\ Top'.text = Tail(Top.text) /\ Top'.dot = 1
      /\ \A i \in 1 .. Len(frames) - 1 : frames'[i] = frames[i]
  BY DEF Runs
<1>3. (Below => Below') /\ Part' = {}
  BY <1>2 DEF Below, Part, Runs
<1>4. CASE Len(frames) >= 2 /\ frames'[1] = frames[1]
  <2>1. Top.who # "main"
    BY <1>1, <1>4, TopType
  <2>2. Done' = Done
    BY <1>4 DEF Done
  <2>3. QED BY <1>2, <1>3, <1>4, <2>1, <2>2
<1>5. CASE Len(frames) = 1 /\ frames[1] = Top /\ frames'[1] = Top'
  <2>1. Top.who \in {"main", "panic"}
    BY <1>1, <1>5, TopType
  <2>2. CASE Top.who = "main"
    <3> DEFINE k == Len(Top.text)
    <3>1. /\ left < Lines /\ k \in 1 .. LineLen + 1
          /\ Char = Newline => k = 1
          /\ Char # Newline => k >= 2 /\ Char = LineLen + 2 - k
      BY <1>1, <1>5, <2>2, MainPrinting
    <3>2. Tail(Top.text) \in Seq(Nat) /\ Len(Tail(Top.text)) = k - 1
      BY <1>1, HeadTailProperties
    <3>3. Done = LineLen + 1 - k
      BY <1>1, <1>5 DEF Done
    <3>4. Tail(Top.text) = <<>> <=> k - 1 = 0
      BY <3>2, EmptySeq
    <3>5. Done' = IF Tail(Top.text) = <<>> THEN LineLen ELSE LineLen + 1 - (k - 1)
      BY <1>2, <1>5, <3>2 DEF Done
    <3> HIDE DEF k
    <3>6. /\ Char = Newline => Tail(Top.text) = <<>> /\ Done = LineLen /\ Done' = LineLen
          /\ Char # Newline => Tail(Top.text) # <<>> /\ Char = Done + 1 /\ Done' = Done + 1
      BY <3>1, <3>3, <3>4, <3>5, Sizes
    <3>7. QED BY <1>2, <1>3, <1>5, <2>2, <3>1, <3>6
  <2>3. QED BY <1>2, <1>3, <1>5, <2>1, <2>2
<1>6. QED BY <1>1, <1>4, <1>5, FirstRuns

\* The glyph is whole and the cursor goes past it.
LEMMA StoreXGround == ASSUME IInv, Ground, StoreX PROVE Ground'
<1>1. /\ Top.pc = "xstore" /\ UNCHANGED <<y, cells, screen, left, env>> /\ x' = Top.reg + 1
      /\ SetTop([Top EXCEPT !.pc = "put", !.text = Tail(@), !.dot = 1])
  BY DEF StoreX, Moves
<1>2. /\ Stack /\ Cursor /\ x \in 0 .. W /\ y \in Nat /\ cells \in Buffers /\ (Mine => Done \in Nat)
      /\ Top.text # <<>> /\ Top.text \in Seq(Nat) /\ Top \in Frame
  BY <1>1, GroundType, Inside, TopType DEF Busy, Advancing
<1>3. Runs(Top.who, "put", Tail(Top.text), Top.reg, 1)
  <2> DEFINE f == [Top EXCEPT !.pc = "put", !.text = Tail(Top.text), !.dot = 1]
  <2>1. Tail(Top.text) \in Seq(Nat)
    BY <1>2, HeadTailProperties
  <2>2. /\ f \in Frame /\ f.who = Top.who /\ f.pc = "put" /\ f.text = Tail(Top.text)
        /\ f.reg = Top.reg /\ f.dot = 1
    BY <1>2, <2>1 DEF Frame, Pcs
  <2>3. SetTop(f)
    BY <1>1
  <2> HIDE DEF f
  <2>4. QED BY <1>2, <2>2, <2>3, SetTopRuns
<1>4. /\ frames'[1].who = frames[1].who /\ (Below => Below') /\ Top'.pc = "put" /\ Part' = {}
      /\ \/ Top.who # "main" /\ frames'[1].text = frames[1].text /\ Done' = Done
         \/ Top.who = "panic"
         \/ /\ Top.who = "main"
            /\ Char # Newline => /\ frames'[1].text # <<>> /\ Char = Done + 1 /\ Done' = Done + 1
  BY <1>1, <1>3, NextCharacter DEF Busy, Advancing
<1>5. Char # Newline /\ Top.reg + 1 <= W /\ y <= H - 1 /\ Top.dot = Dots + 1
  BY <1>1, <1>2, TopType DEF Printing, Char, Registers, Fits, Cursor, Advancing
<1> SUFFICES ASSUME Mine'
             PROVE  /\ Top'.pc # "scroll" /\ Below' /\ Held'
                    /\ Clean(cells', Done', Front', Part')
                    /\ frames'[1].text = <<>> => Legible(screen', LineLen, Cells)
  BY DEF Ground
<1>6. Mine
  BY <1>1, <1>4 DEF Mine
<1>7. /\ Below /\ Top.reg = x /\ Clean(cells, Done, Front, Part) /\ Done \in Nat
      /\ frames[1].text = <<>> => Legible(screen, LineLen, Cells)
  BY <1>1, <1>2, <1>6 DEF Ground, Held
<1>8. /\ Front = Offset(x, y) /\ Front' = Offset(x, y) + 1 /\ Held'
      /\ Offset(x, y) \in 0 .. Cells - 1
  <2>1. Front = Offset(x, y) /\ Front' = Offset(x + 1, y) /\ Held'
    BY <1>1, <1>4, <1>7 DEF Front, Held
  <2>2. /\ Offset(x, y) \in Nat /\ Offset(x + 1, y) = Offset(x, y) + 1
        /\ Offset(x, y) < Cells
    BY <1>2, <1>5, <1>7, Offsets
  <2>3. QED BY <2>1, <2>2, Sizes
<1>9. Part = {Mark(Top, d) : d \in 1 .. Dots}
  <2>1. (Dots + 1) - 1 = Dots
    BY Sizes
  <2>2. QED BY <1>5, <2>1 DEF Part
<1>10. Top.who # "panic"
  <2>1. CASE Len(frames) = 1
    <3>1. frames[1] = Top
      BY <1>2, <2>1, TopType
    <3>2. QED BY <1>6, <3>1 DEF Mine
  <2>2. CASE Len(frames) # 1
    BY <1>2, <2>2, TopType
  <2>3. QED BY <2>1, <2>2
<1>11. CASE Top.who # "main"
  <2>1. \A m \in Part : m[1] = 0
    BY <1>9, <1>11 DEF Mark
  <2>2. Clean(cells, Done, Offset(x, y) + 1, {})
    BY <1>2, <1>7, <1>8, <2>1, CleanPasses
  <2>3. QED BY <1>1, <1>4, <1>7, <1>8, <1>10, <1>11, <2>2
<1>12. CASE Top.who = "main"
  <2>1. Char = Done + 1 /\ Done' = Done + 1 /\ frames'[1].text # <<>>
    BY <1>4, <1>5, <1>12
  <2>2. Part = Glyph(Done + 1)
    <3>1. \A d : Mark(Top, d) = <<Done + 1, d>>
      BY <1>12, <2>1 DEF Mark, Char
    <3>2. QED BY <1>9, <3>1 DEF Glyph
  <2>3. Clean(cells, Done + 1, Offset(x, y) + 1, {})
    BY <1>2, <1>7, <1>8, <2>2, CleanNext
  <2>4. QED BY <1>1, <1>4, <1>7, <1>8, <2>1, <2>3
<1>13. QED BY <1>11, <1>12

\* The buffer goes to the screen, with the line on it once main has got to its
\* newline.
LEMMA FlipGround == ASSUME IInv, Ground, Flip PROVE Ground'
<1>1. /\ Top.pc = "flip" /\ UNCHANGED <<x, y, cells, left, env>> /\ screen' = cells
      /\ SetTop([Top EXCEPT !.pc = "put", !.text = Tail(@)])
  BY DEF Flip, Moves
<1>2. /\ Stack /\ Front \in Nat /\ (Mine => Done \in Nat)
      /\ Top.text # <<>> /\ Top.text \in Seq(Nat)
  BY <1>1, GroundType, Inside DEF Busy
<1>3. Runs(Top.who, "put", Tail(Top.text), Top.reg, 1) /\ Top.dot = 1
  <2>1. Top.dot = 1 /\ Tail(Top.text) \in Seq(Nat)
    BY <1>1, <1>2, Standing, HeadTailProperties DEF Drawing, Advancing
  <2>2. Runs(Top.who, "put", Tail(Top.text), Top.reg, Top.dot)
    BY <1>1, <1>2, <2>1, TextRuns DEF Pcs
  <2>3. QED BY <2>1, <2>2
<1>4. Char = Newline
  BY <1>1, <1>2, TopType DEF Printing, Char
<1>5. /\ frames'[1].who = frames[1].who /\ (Below => Below') /\ Top'.pc = "put" /\ Part' = {}
      /\ \/ Top.who # "main" /\ frames'[1].text = frames[1].text /\ Done' = Done
         \/ Top.who = "panic"
         \/ Top.who = "main" /\ Done = LineLen /\ Done' = LineLen
  BY <1>1, <1>3, <1>4, NextCharacter DEF Busy
<1> SUFFICES ASSUME Mine'
             PROVE  /\ Top'.pc # "scroll" /\ Below' /\ Held'
                    /\ Clean(cells', Done', Front', Part')
                    /\ frames'[1].text = <<>> => Legible(screen', LineLen, Cells)
  BY DEF Ground
<1>6. Mine
  BY <1>1, <1>5 DEF Mine
<1>7. Part = {} /\ Front' = Front /\ Held'
  BY <1>1, <1>3, <1>5 DEF Part, Front, Held
<1>8. Below /\ Clean(cells, Done, Front, {}) /\ Done \in Nat
  BY <1>2, <1>6, <1>7 DEF Ground
<1>9. Top.who # "panic"
  <2>1. CASE Len(frames) = 1
    <3>1. frames[1] = Top
      BY <1>2, <2>1, TopType
    <3>2. QED BY <1>6, <3>1 DEF Mine
  <2>2. CASE Len(frames) # 1
    BY <1>2, <2>2, TopType
  <2>3. QED BY <2>1, <2>2
<1>10. Done' = Done /\ (frames'[1].text = <<>> => Done = LineLen)
  BY <1>5, <1>9 DEF Done
<1>11. Legible(cells, Done, Cells)
  BY <1>2, <1>8, CleanWhole
<1>12. QED BY <1>1, <1>5, <1>7, <1>8, <1>10, <1>11

\* A line begins where the buffer is blank, or is spoilt.
LEMMA MainPrintsGround == ASSUME IInv, Ground, MainPrints PROVE Ground'
<1> DEFINE m == Message(LineLen)
<1>1. /\ Top.pc = "idle" /\ SetTop([Top EXCEPT !.pc = "put", !.text = m])
      /\ cells' = Faded(cells) /\ UNCHANGED <<x, y>>
      /\ env' = [env EXCEPT !.spoilt = \E c \in 0 .. Cells - 1 : c >= Offset(x, y) /\ cells[c] # {}]
  BY DEF MainPrints
<1>2. /\ Stack /\ Rest /\ Len(frames) = 1 /\ frames[1] = Top /\ Top.dot = 1 /\ cells \in Buffers
  BY <1>1, MainAlone, Standing DEF Drawing, Advancing
<1>3. m \in Seq(Nat) /\ Len(m) = LineLen + 1
  BY Sizes, MessageType
<1> HIDE DEF m
<1>4. m # <<>>
  BY <1>3, Sizes, EmptySeq
<1>5. Runs(Top.who, "put", m, Top.reg, Top.dot)
  BY <1>1, <1>2, <1>3, TextRuns DEF Pcs
<1>6. Top'.pc = "put" /\ Top'.text = m /\ Top'.dot = 1 /\ Len(frames') = 1 /\ frames'[1] = Top'
  BY <1>2, <1>5 DEF Runs
<1>7. Done' = 0
  <2>1. Done' = LineLen + 1 - (LineLen + 1)
    BY <1>3, <1>4, <1>6 DEF Done
  <2>2. QED BY <2>1, Sizes
<1>8. Front' = Offset(x, y) /\ Part' = {} /\ Held' /\ Below'
  BY <1>1, <1>6 DEF Front, Part, Held, Below
<1> SUFFICES ASSUME ~env'.spoilt PROVE Clean(cells', 0, Offset(x, y), {})
  BY <1>4, <1>6, <1>7, <1>8 DEF Ground, Mine
<1>9. \A c \in 0 .. Cells - 1 : c >= Offset(x, y) => cells[c] = {}
  BY <1>1, <1>2 DEF Rest
<1>10. \A c \in 0 .. Cells - 1 : c >= Offset(x, y) => cells'[c] = {}
  BY <1>1, <1>9 DEF Faded
<1>11. \A c \in 0 .. Cells - 1 : \A q \in cells'[c] : q[1] <= 0
  <2>1. \A c \in 0 .. Cells - 1 : \A q \in cells'[c] : q[1] = 0
    BY <1>1, <1>2, FadedType
  <2>2. QED BY <2>1
<1>12. Legible(cells', 0, Offset(x, y))
  BY DEF Legible
<1>13. QED BY <1>10, <1>11, <1>12 DEF Clean

\* A handler that is entered where the context is not exposed.
LEMMA EnterGround ==
    ASSUME IInv, Ground, NEW who \in Handlers, Enters(who), UNCHANGED <<console, left>>,
           env.spoilt \/ Exposed(Top) => env'.spoilt
    PROVE  Ground'
<1>1. /\ Stack /\ Cursor /\ x \in 0 .. W /\ y \in Nat /\ Front \in Nat /\ (Mine => Done \in Nat)
      /\ Len(frames) \in Nat /\ Len(frames) >= 1 /\ frames[Len(frames)] = Top
  BY GroundType, TopType
<1>2. /\ Top'.pc \in {"in", "put"} /\ Top'.dot = 1 /\ Len(frames') = Len(frames) + 1
      /\ UNCHANGED <<x, y, cells, screen>>
  BY ContextType DEF Enters, console
<1> DEFINE n == Len(frames)
           g == frames'[n]
<1>3. /\ \A i \in 1 .. n - 1 : frames'[i] = frames[i]
      /\ g.who = Top.who /\ g.text = Top.text /\ g.dot = Top.dot
      /\ g.pc = Top.pc \/ (g.pc = "past" /\ Top.pc = "hlt")
  BY DEF Enters
<1>4. frames'[1].who = frames[1].who /\ frames'[1].text = frames[1].text
  <2>1. CASE n = 1
    BY <1>1, <1>3, <2>1
  <2>2. CASE n # 1
    <3>1. n \in Nat /\ n >= 1
      BY <1>1
    <3> HIDE DEF n
    <3>2. 1 \in 1 .. n - 1
      BY <2>2, <3>1
    <3>3. QED BY <1>3, <3>2
  <2>3. QED BY <2>1, <2>2
<1> SUFFICES ASSUME Mine'
             PROVE  /\ Top'.pc # "scroll" /\ Below' /\ Held'
                    /\ Clean(cells', Done', Front', Part')
                    /\ frames'[1].text = <<>> => Legible(screen', LineLen, Cells)
  BY DEF Ground
<1>5. Mine /\ ~Exposed(Top)
  BY <1>4 DEF Mine
<1>6. /\ Below /\ Clean(cells, Done, Front, Part) /\ Done \in Nat /\ Top.pc # "scroll"
      /\ frames[1].text = <<>> => Legible(screen, LineLen, Cells)
  BY <1>1, <1>5 DEF Ground
<1>7. Below'
  <2>1. ~Exposed(g) /\ g.pc # "scroll"
    <3> HIDE DEF g
    <3>1. QED BY <1>3, <1>5, <1>6 DEF Exposed
  <2>2. ASSUME NEW i \in 1 .. n PROVE ~Exposed(frames'[i]) /\ frames'[i].pc # "scroll"
    <3>1. CASE i = n
      BY <2>1, <3>1
    <3>2. CASE i # n
      <4>1. i \in 1 .. n - 1
        BY <1>1, <3>2
      <4>2. QED BY <1>3, <1>6, <4>1 DEF Below
    <3>3. QED BY <3>1, <3>2
  <2>3. Len(frames') - 1 = n
    BY <1>1, <1>2
  <2>4. QED BY <2>2, <2>3 DEF Below
<1>8. Part = {} /\ Part' = {}
  <2>1. Top.dot = 1
    <3>1. Top.pc \notin {"drawy", "pixel", "xload", "xstore"} /\ (Top.pc = "drawx" => ~(Top.dot > 1))
      BY <1>5 DEF Exposed
    <3>2. CASE Top.pc = "drawx"
      BY <1>1, <3>1, <3>2, TopType, Sizes DEF Fits
    <3>3. CASE Top.pc # "drawx"
      BY <1>1, <3>1, <3>3, TopType DEF Fits, Drawing, Advancing
    <3>4. QED BY <3>2, <3>3
  <2>2. QED BY <1>2, <2>1 DEF Part
<1>9. Done' = Done /\ Front' = Offset(x, y) /\ Held'
  BY <1>2, <1>4 DEF Done, Front, Held
<1>10. Front <= Offset(x, y) /\ Offset(x, y) \in Nat
  <2>1. Offset(0, y) <= Offset(x, y) /\ Offset(x, y) \in Nat
    BY <1>1, Offsets
  <2>2. Front \in {Offset(0, y), Offset(x, y)}
    BY <1>5 DEF Front, Exposed, Char
  <2>3. QED BY <1>1, <2>1, <2>2
<1>11. Clean(cells, Done, Offset(x, y), {})
  BY <1>1, <1>6, <1>8, <1>10, CleanMoves
<1>12. QED BY <1>2, <1>4, <1>6, <1>7, <1>8, <1>9, <1>11

\* A handler that returns leaves the front at the cursor.
LEMMA ReturnGround == ASSUME IInv, Ground, ReturnFromInterrupt PROVE Ground'
<1>1. Top.pc = "iret" /\ UNCHANGED <<x, y, cells, screen, left, env>>
  BY DEF ReturnFromInterrupt, console
<1>2. /\ Stack /\ Cursor /\ Len(frames) \in Nat
  BY GroundType
<1>3. /\ Stack' /\ Len(frames) >= 2 /\ Len(frames') = Len(frames) - 1
      /\ \A i \in 1 .. Len(frames) - 1 : frames'[i] = frames[i]
  BY <1>2, StackReturns
<1> DEFINE n == Len(frames) - 1
<1>4. n \in Nat /\ n >= 1 /\ Len(frames') = n /\ n \in 1 .. n /\ 1 \in 1 .. n
  BY <1>2, <1>3
<1>5. Top' = frames[n] /\ frames'[1] = frames[1]
  BY <1>3, <1>4 DEF Top
<1> SUFFICES ASSUME Mine'
             PROVE  /\ Top'.pc # "scroll" /\ Below' /\ Held'
                    /\ Clean(cells', Done', Front', Part')
                    /\ frames'[1].text = <<>> => Legible(screen', LineLen, Cells)
  BY DEF Ground
<1>6. Mine
  BY <1>1, <1>5 DEF Mine
<1>7. /\ Below /\ Clean(cells, Done, Front, Part)
      /\ frames[1].text = <<>> => Legible(screen, LineLen, Cells)
  BY <1>6 DEF Ground
<1>8. ~Exposed(Top') /\ Top'.pc # "scroll"
  BY <1>4, <1>5, <1>7 DEF Below
<1>9. Below'
  <2>1. \A i \in 1 .. n - 1 : i \in 1 .. n
    BY <1>4
  <2>2. \A i \in 1 .. Len(frames') - 1 : i \in 1 .. n
    BY <1>4, <2>1
  <2>3. QED BY <1>3, <1>7, <2>2 DEF Below
<1>10. x = 0 /\ Top.dot = 1
  BY <1>1, <1>2, Standing DEF Cursor, Drawing, Advancing
<1>11. Top'.dot = 1
  <2>1. Top' \in Frame /\ Fits(Top'.pc, Top'.dot)
    <3>1. frames[n] \in Frame /\ Well(n, frames[n])
      <4>1. n \in 1 .. Len(frames)
        BY <1>2, <1>3
      <4>2. QED BY <1>2, <4>1 DEF Stack
    <3>2. QED BY <1>5, <3>1 DEF Well
  <2>2. /\ Top'.pc \notin {"drawy", "pixel", "xload", "xstore"}
        /\ Top'.pc = "drawx" => ~(Top'.dot > 1)
    BY <1>8 DEF Exposed
  <2>3. CASE Top'.pc = "drawx"
    BY <2>1, <2>2, <2>3, Sizes DEF Fits
  <2>4. CASE Top'.pc # "drawx"
    BY <2>1, <2>2, <2>4 DEF Fits, Drawing, Advancing
  <2>5. QED BY <2>3, <2>4
<1>12. Part = {} /\ Part' = {} /\ Done' = Done
  BY <1>5, <1>10, <1>11 DEF Part, Done
<1>13. Front = Offset(0, y) /\ Front' = Offset(0, y)
  BY <1>1, <1>8, <1>10 DEF Front, Exposed, Char
<1>14. Held' /\ Top'.pc # "scroll"
  BY <1>8 DEF Held, Exposed, Char
<1>15. QED BY <1>1, <1>5, <1>7, <1>9, <1>12, <1>13, <1>14

\* Every step keeps the ground, given the invariant.
LEMMA GroundInductive == IInv /\ Ground /\ [Next]_vars => Ground'
<1> SUFFICES ASSUME IInv, Ground, [Next]_vars PROVE Ground'
  OBVIOUS
<1>1. CASE FindIoApic \/ RouteKeyboard \/ EnableInterrupts
  <2>1. Top.pc \in {"apic", "route", "sti"} /\ left' = left
    BY <1>1 DEF FindIoApic, RouteKeyboard, EnableInterrupts
  <2>2. left = Lines
    BY <2>1, MainAlone DEF Line
  <2>3. QED BY <2>1, <2>2, Sizes DEF Ground, Mine
<1>2. CASE MainPrints
  BY <1>2, MainPrintsGround
<1>3. CASE MainFaults
  <2>1. Gate(14) = "exception"
    <3>1. 14 \in Exceptions
      BY DEF Exceptions
    <3>2. QED BY <3>1, GateOfException
  <2>2. Stack /\ Top \in Frame /\ frames = [frames EXCEPT ![Len(frames)] = Top]
    BY TopType DEF IInv, Stack
  <2>3. frames' = Append([frames EXCEPT ![Len(frames)] = Top], Context("exception"))
    BY <1>3, <2>1, <2>2 DEF MainFaults
  <2>4. Enters("exception")
    BY <2>2, <2>3, EntersStack DEF Handlers
  <2>5. ~Exposed(Top) /\ UNCHANGED <<console, left, env>>
    BY <1>3 DEF MainFaults, Exposed
  <2>6. QED BY <2>4, <2>5, EnterGround DEF Handlers
<1>4. CASE WriteCharacter
  BY <1>4, StartGround, RowGround, ClampGround, PixelGround, QuietGround, StoreXGround, FlipGround
     DEF WriteCharacter
<1>5. CASE ReadPort \/ StoreKey \/ EndOfInterrupt
  BY <1>5, QuietGround
<1>6. CASE ReturnFromInterrupt
  BY <1>6, ReturnGround
<1>7. CASE Deliver
  <2>1. PICK v \in irr : /\ Push(Gate(v))
                         /\ env' = [env EXCEPT !.unended = @ \/ Gate(v) = "not_implemented",
                                               !.spoilt = @ \/ Exposed(Top)]
    BY <1>7 DEF Deliver, Deliverable
  <2>2. Gate(v) \in Handlers
    BY GateOf DEF IInv, Rest
  <2>3. Enters(Gate(v))
    BY <2>1, <2>2, PushEnters DEF IInv
  <2>4. env.spoilt \/ Exposed(Top) => env'.spoilt
    BY <2>1 DEF IInv, Rest
  <2>5. UNCHANGED <<console, left>>
    BY <1>7 DEF Deliver
  <2>6. QED BY <2>2, <2>3, <2>4, <2>5, EnterGround
<1>8. CASE Spurious
  <2>1. /\ Push("exception") /\ UNCHANGED <<console, left>>
        /\ env' = [env EXCEPT !.odd = @ + 1, !.spoilt = @ \/ Exposed(Top)]
    BY <1>8, SpuriousGate DEF Spurious
  <2>2. Enters("exception")
    BY <2>1, PushEnters DEF IInv, Handlers
  <2>3. env.spoilt \/ Exposed(Top) => env'.spoilt
    BY <2>1 DEF IInv, Rest
  <2>4. QED BY <2>1, <2>2, <2>3, EnterGround DEF Handlers
<1>9. CASE Stray \/ Press \/ Transmit \/ Wait \/ UNCHANGED vars
  <2>1. UNCHANGED <<frames, x, y, cells, screen, left>> /\ env'.spoilt = env.spoilt
    BY <1>9 DEF Stray, Press, Transmit, Wait, vars, cpu, console, IInv, Rest
  <2>2. Top' = Top /\ Char' = Char
    BY <2>1 DEF Top, Char
  <2>3. Mine' = Mine /\ Done' = Done /\ Front' = Front /\ Part' = Part /\ Held' = Held /\ Below' = Below
    BY <2>1, <2>2 DEF Mine, Done, Front, Part, Held, Below
  <2>4. QED BY <2>1, <2>2, <2>3 DEF Ground
<1>10. QED BY <1>1, <1>2, <1>3, <1>4, <1>5, <1>6, <1>7, <1>8, <1>9 DEF Next, Step

\* At the start main has no line.
LEMMA GroundInitial == Init => Ground
BY Sizes DEF Init, Ground, Mine

\* A line that kernel_stage2 printed on blank ground is legible on the screen
\* when main is done with it, each glyph whole, alone in its cell and in order,
\* whatever handlers printed between its glyphs, unless one came in where
\* write_character is exposed or the screen was scrolled meanwhile.
THEOREM LinesAreShown == Spec => []LineShown
<1>1. Spec => []Ground
  BY Invariance, GroundInitial, GroundInductive, PTL DEF Spec
<1>2. IInv /\ Ground => LineShown
  <2> SUFFICES ASSUME IInv, Ground, Len(frames) = 1, Top.who = "main", Top.pc = "idle",
                      left < Lines, ~env.spoilt
               PROVE  Legible(screen, LineLen, Cells)
    BY DEF LineShown
  <2>1. frames[1] = Top /\ Top.text = <<>>
    BY MainAlone
  <2>2. QED BY <2>1 DEF Ground, Mine
<1>3. QED BY <1>1, <1>2, Invariance, PTL

-----------------------------------------------------------------------------
(* Exceptions.                                                             *)

\* What FaultIsFinal says of a step.
Final ==
    \A i \in DOMAIN frames : frames[i].who = "exception" =>
        /\ i \in DOMAIN frames'
        /\ \A j \in 1 .. i - 1 : frames'[j] = frames[j]

\* The places below place i of a stack of n are not its top.
LEMMA Beneath ==
    ASSUME NEW n \in Nat
    PROVE  /\ \A i \in 1 .. n : \A j \in 1 .. i - 1 : j \in 1 .. n /\ j # n /\ j \in 1 .. n - 1
           /\ \A i \in 1 .. n : i # n => i \in 1 .. n - 1
OBVIOUS

\* A step of the context on top changes no other.
LEMMA TopIsFinal ==
    ASSUME Stack, NEW f, SetTop(f) PROVE Final
<1>1. DOMAIN frames = 1 .. Len(frames) /\ Len(frames) \in Nat
  BY TopType
<1>2. frames' = [frames EXCEPT ![Len(frames)] = f]
  BY DEF SetTop
<1>3. DOMAIN frames' = DOMAIN frames /\ \A j \in DOMAIN frames : j # Len(frames) => frames'[j] = frames[j]
  BY <1>2
<1>4. \A i \in 1 .. Len(frames) : \A j \in 1 .. i - 1 : j \in 1 .. Len(frames) /\ j # Len(frames)
  BY <1>1, Beneath, Zenon
<1>5. QED BY <1>1, <1>3, <1>4 DEF Final

\* In particular a jump of the context on top.
LEMMA GotoIsFinal ==
    ASSUME Stack, NEW p, Goto(p) PROVE Final
BY TopIsFinal DEF Goto

\* Nor does the entry of a handler.
LEMMA EntryIsFinal ==
    ASSUME Stack, NEW who, Enters(who) PROVE Final
<1>1. DOMAIN frames = 1 .. Len(frames) /\ Len(frames) \in Nat
  BY TopType
<1>2. DOMAIN frames' = 1 .. Len(frames) + 1
  BY DEF Enters
<1>3. \A i \in 1 .. Len(frames) : i \in 1 .. Len(frames) + 1
  BY <1>1
<1>4. \A i \in 1 .. Len(frames) : \A j \in 1 .. i - 1 : j \in 1 .. Len(frames) - 1
  BY <1>1
<1>5. QED BY <1>1, <1>2, <1>3, <1>4 DEF Final, Enters

\* A handler that returns is not an exception's.
LEMMA ReturnIsFinal ==
    ASSUME Stack, ReturnFromInterrupt PROVE Final
<1>1. /\ DOMAIN frames = 1 .. Len(frames) /\ Len(frames) \in Nat /\ frames[Len(frames)] = Top
      /\ Top.who # "exception"
  BY TopType DEF ReturnFromInterrupt, Placed
<1>2. /\ Stack' /\ Len(frames') = Len(frames) - 1
      /\ \A i \in 1 .. Len(frames) - 1 : frames'[i] = frames[i]
  BY StackReturns
<1>3. DOMAIN frames' = 1 .. Len(frames) - 1
  BY <1>2 DEF Stack
<1>4. \A i \in 1 .. Len(frames) : i # Len(frames) => i \in 1 .. Len(frames) - 1
  BY <1>1, Beneath, Zenon
<1>5. \A i \in 1 .. Len(frames) : \A j \in 1 .. i - 1 : j \in 1 .. Len(frames) - 1
  BY <1>1, Beneath, Zenon
<1>6. QED BY <1>1, <1>2, <1>3, <1>4, <1>5 DEF Final

\* Once an exception's handler is entered, no step resumes or changes a
\* context underneath it: its wrapper ends in hlt, never in iretq, and this
\* at any nesting depth.
THEOREM FaultsAreFinal == Spec => FaultIsFinal
<1>1. IInv /\ [Next]_vars => [Final]_vars
  <2> SUFFICES ASSUME IInv, Next PROVE Final
    OBVIOUS
  <2>0. Stack /\ IInv'
    BY Inductive DEF IInv
  <2>1. CASE FindIoApic \/ RouteKeyboard \/ EnableInterrupts \/ MainPrints
    BY <2>0, <2>1, TopIsFinal, GotoIsFinal
       DEF FindIoApic, RouteKeyboard, EnableInterrupts, MainPrints, Panic
  <2>2. CASE MainFaults
    <3>1. DOMAIN frames = 1 .. Len(frames) /\ Len(frames) \in Nat /\ frames \in Seq(Frame)
      BY <2>0, TopType
    <3>2. frames' = Append(frames, Context(Gate(14)))
      BY <2>2 DEF MainFaults
    <3>3. /\ DOMAIN frames' = 1 .. Len(frames) + 1
          /\ \A j \in 1 .. Len(frames) : frames'[j] = frames[j]
      BY <3>1, <3>2
    <3>4. \A i \in 1 .. Len(frames) : i \in 1 .. Len(frames) + 1
      BY <3>1
    <3>5. \A i \in 1 .. Len(frames) : \A j \in 1 .. i - 1 : j \in 1 .. Len(frames)
      BY <3>1
    <3>6. QED BY <3>1, <3>3, <3>4, <3>5 DEF Final
  <2>3. CASE StartCharacter \/ LoadY \/ StoreY \/ ZeroX \/ Clamp \/ Scroll
    BY <2>0, <2>3, TopIsFinal, GotoIsFinal
       DEF StartCharacter, LoadY, StoreY, ZeroX, Clamp, Scroll
  <2>4. CASE DrawX \/ DrawY \/ PutPixel \/ LoadX \/ StoreX \/ Flip \/ Printed
    BY <2>0, <2>4, TopIsFinal, GotoIsFinal DEF DrawX, DrawY, PutPixel, LoadX, StoreX, Flip, Printed
  <2>5. CASE ReadPort \/ StoreKey \/ EndOfInterrupt
    BY <2>0, <2>5, TopIsFinal, GotoIsFinal DEF ReadPort, StoreKey, EndOfInterrupt
  <2>6. CASE ReturnFromInterrupt
    BY <2>0, <2>6, ReturnIsFinal
  <2>7. CASE Deliver
    <3>1. PICK v \in irr : Push(Gate(v))
      BY <2>7 DEF Deliver, Deliverable
    <3>2. Gate(v) \in Handlers
      BY GateOf DEF IInv, Rest
    <3>3. QED BY <2>0, <3>1, <3>2, PushEnters, EntryIsFinal
  <2>8. CASE Spurious
    <3>1. Push("exception")
      BY <2>8, SpuriousGate DEF Spurious
    <3>2. QED BY <2>0, <3>1, PushEnters, EntryIsFinal DEF Handlers
  <2>9. CASE Stray \/ Press \/ Transmit \/ Wait
    <3>1. UNCHANGED frames
      BY <2>9 DEF Stray, Press, Transmit, Wait, vars, cpu
    <3>2. QED BY <2>0, <3>1, TopType DEF Final
  <2>10. QED BY <2>1, <2>2, <2>3, <2>4, <2>5, <2>6, <2>7, <2>8, <2>9 DEF Next, Step, WriteCharacter
<1>2. QED BY <1>1, Invariance, PTL DEF Spec, FaultIsFinal, Final
=============================================================================
