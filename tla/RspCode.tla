------------------------------ MODULE RspCode ------------------------------
(***************************************************************************)
(* A microcode of the RSP and its overlays: words at the addresses         *)
(* 0..Size - 1 of IMEM, and slots, stretches of IMEM that the microcode    *)
(* itself replaces by a DMA while it runs.  Only what moves control is     *)
(* told apart: $ra, one more register "t" that jumps go through, and what  *)
(* the DMA registers name.                                                 *)
(***************************************************************************)
EXTENDS Naturals, Sequences

CONSTANTS
  Size,       (* text_size, in words                                        *)
  Slots,      (* how many overlay slots                                     *)
  MaxOverlays,(* bound: the overlays of a slot                              *)
  Ucodes      (* the microcodes considered                                  *)

Text      == 0..Size - 1
NoAddress == Size + 1
Addresses == 0..Size

(* An ordinary instruction; one that loads an address; one that names what *)
(* the next DMA reads, data or an overlay of a slot; the DMA; a branch, j  *)
(* or jal; jr and jalr; break.                                             *)
Plain      == [op |-> "plain"]
Li(a)      == [op |-> "li", value |-> a]
Name(d)    == [op |-> "name", what |-> d]
Dma        == [op |-> "dma"]
Branch(cond, link, a) == [op |-> "branch", cond |-> cond, link |-> link, target |-> a]
Jr(reg)    == [op |-> "jr", reg |-> reg]
Jalr       == [op |-> "jalr", reg |-> "t"]
Break      == [op |-> "break"]

Data       == <<0, 0>>
Names      == {Data} \cup (1..Slots) \X (1..MaxOverlays)
Words ==
  {Plain, Dma, Jalr, Break} \cup {Li(a) : a \in Addresses} \cup [op : {"name"}, what : Names]
    \cup {Branch(cond, link, a) : cond \in BOOLEAN, link \in BOOLEAN, a \in Text}
    \cup {Jr(reg) : reg \in {"ra", "t"}}
Registers == [ra : Addresses, t : Addresses, dma : Names]

(* text: what is in IMEM when a task starts; start: where a slot begins;   *)
(* overlays: what can be loaded there; extra: the jump targets the config  *)
(* names; unsupported: the addresses it gives up at.                       *)
Microcodes ==
  [text : [Text -> Words], start : [1..Slots -> Text],
   overlays : [1..Slots -> Seq(Seq(Words))],
   extra : SUBSET Text, unsupported : SUBSET Text]

(* The config lists every overlay the microcode reads (map::at throws).    *)
AllWords(u) ==
  {u.text[a] : a \in Text}
    \cup UNION {UNION {{u.overlays[s][k][i] : i \in DOMAIN u.overlays[s][k]} :
                      k \in DOMAIN u.overlays[s]} : s \in 1..Slots}

ASSUME CodeAssumption ==
  /\ Size \in Nat \ {0} /\ Slots \in Nat /\ MaxOverlays \in Nat
  /\ Ucodes \subseteq Microcodes
  /\ \A u \in Ucodes :
       /\ \A s \in 1..Slots : Len(u.overlays[s]) \in 1..MaxOverlays
       /\ \A w \in AllWords(u) :
            w.op = "name" => w.what = Data \/ w.what[2] \in DOMAIN u.overlays[w.what[1]]

-----------------------------------------------------------------------------
Transfers(w) == w.op \in {"branch", "jr", "jalr"}
Links(w)     == w.op = "jalr" \/ (w.op = "branch" /\ w.link)
Always(w)    == w.op \in {"jr", "jalr"} \/ (w.op = "branch" /\ ~w.cond)

Linked(w, a, regs) == IF Links(w) THEN [regs EXCEPT !.ra = a + 2] ELSE regs

(* What an instruction that moves nothing leaves in the registers. *)
Effect(w, regs) ==
  CASE w.op = "li"   -> [regs EXCEPT !.t = w.value]
    [] w.op = "name" -> [regs EXCEPT !.dma = w.what]
    [] OTHER         -> regs

(* IMEM after overlay k has been read into slot s. *)
Loaded(u, imem, s, k) ==
  [a \in Text |->
     IF a >= u.start[s] /\ a < u.start[s] + Len(u.overlays[s][k])
       THEN u.overlays[s][k][a - u.start[s] + 1]
       ELSE imem[a]]

(* A DMA into IMEM that finds an overlay: the others move data. *)
Swaps(w, regs) == w.op = "dma" /\ regs.dma # Data
=============================================================================
