----------------------------- MODULE BpfLoader -----------------------------
(***************************************************************************)
(* Which program bpf_loader_init (src/bpf_loader.c) hands to the kernel,   *)
(* and what the kernel makes of it.  An instruction is its opcode and its  *)
(* two registers.                                                          *)
(***************************************************************************)
EXTENDS Integers, Sequences

LDX_W == 97   \* 0x61: dst = *(u32 *)(src + off)
EXIT  == 149  \* 0x95

Insn(opcode, dst, src) == [opcode |-> opcode, dst |-> dst, src |-> src]

-----------------------------------------------------------------------------
(* An object file: whether it can be opened, whether it is a 64-bit        *)
(* little-endian ELF file, and its sections.  A section has a type and a   *)
(* size, a name that contains "text" or "socket" or not, and may reach     *)
(* behind the end of the file.                                             *)

\* The first non-empty SHT_PROGBITS section with such a name.
parse_bpf_elf(obj) ==
    LET fit == {i \in DOMAIN obj.sections :
                  obj.sections[i].progbits /\ obj.sections[i].insns # <<>>
                  /\ obj.sections[i].named}
        first == obj.sections[CHOOSE i \in fit : \A j \in fit : i <= j]
    IN  IF obj.opens /\ obj.elf64le /\ fit # {} /\ first.whole
        THEN [ok |-> TRUE, insns |-> first.insns]
        ELSE [ok |-> FALSE, insns |-> <<>>]

\* The instructions as bpf() reads the array: its elements are struct
\* sock_filter, whose first member is 16 bits wide, so on a little-endian
\* machine the opcode is the low byte and the registers are the high one.
FromSockFilter(code) ==
    Insn(code % 256, (code \div 256) % 16, code \div 4096)

embedded_bpf_prog == <<FromSockFilter(LDX_W), FromSockFilter(EXIT)>>

\* The instructions handed to BPF_PROG_LOAD.
Program(obj) ==
    IF parse_bpf_elf(obj).ok THEN parse_bpf_elf(obj).insns
    ELSE embedded_bpf_prog

\* The kernel's verifier on straight-line code: at the entry r1 holds the
\* context and r10 the frame; only a register that was written may be read,
\* and exit reads r0.
Verified(insns) ==
    LET known[k \in 1 .. Len(insns)] ==
            IF k = 1 THEN {1, 10} ELSE known[k - 1] \cup {insns[k - 1].dst}
    IN  /\ insns[Len(insns)].opcode = EXIT
        /\ \A k \in DOMAIN insns :
              IF insns[k].opcode = EXIT THEN 0 \in known[k]
              ELSE insns[k].src \in known[k]

-----------------------------------------------------------------------------
(* Object files main may find: stb_socket_filter.bpf.o built behind an     *)
(* empty .text, the same cut short, one for a 32-bit machine, one without  *)
(* a socket section, and none.                                             *)

Section(progbits, named, insns) ==
    [progbits |-> progbits, named |-> named, insns |-> insns, whole |-> TRUE]

PassFilter == <<Insn(LDX_W, 0, 1), Insn(EXIT, 0, 0)>>

Built ==
    [opens |-> TRUE, elf64le |-> TRUE,
     sections |-> <<Section(FALSE, FALSE, <<>>), Section(TRUE, TRUE, <<>>),
                    Section(TRUE, TRUE, PassFilter)>>]

Objects ==
    {Built, [Built EXCEPT !.opens = FALSE], [Built EXCEPT !.elf64le = FALSE],
     [Built EXCEPT !.sections[3].whole = FALSE],
     [Built EXCEPT !.sections[3].named = FALSE]}
=============================================================================
