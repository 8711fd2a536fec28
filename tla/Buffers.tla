------------------------------- MODULE Buffers -------------------------------
(***************************************************************************)
(* The t_buffer of utils: a stream in which each field goes after its own  *)
(* length, and fields come out in the order they went in.  A cell of the   *)
(* stream is what sizeof(int) bytes hold, or one name or instruction.      *)
(***************************************************************************)
EXTENDS Naturals, Sequences

NuevoBuffer == <<>>

\* add_to_buffer: the length, then the content.
Agregar(b, c) == b \o (<<Len(c)>> \o c)

\* extract_from_buffer: the first field, and what it leaves in the buffer.
Extraido(b) == SubSeq(b, 2, b[1] + 1)
Resto(b)    == SubSeq(b, b[1] + 2, Len(b))

\* Fields of one cell: add_int_to_buffer and extract_int_from_buffer, and the
\* same for uint32 and strings.
AgregarUno(b, v) == Agregar(b, <<v>>)
Uno(b)           == Extraido(b)[1]

\* The stream of fields of one cell added in order, and what the k-th extraction
\* gives: Buffers_proofs shows that they are those of Agregar and of Resto.
Campos(vs)  == [i \in 1..(2 * Len(vs)) |-> IF i % 2 = 1 THEN 1 ELSE vs[i \div 2]]
Campo(b, k) == b[2 * k]

\* pckg_serialize and send_pckg: op code, length, stream.  The receiver reads
\* the op code with recv_op and, if its handler does, the rest with recv_buffer.
\* Of an empty buffer recv returns 0, which recv_buffer takes for the end of the
\* connection: the receiver ends.
Serializar(op, b) == <<op, Len(b)>> \o b
RecvOp(s)         == Head(s)
TrasOp(s)         == Tail(s)
FinDelProceso     == "exit"
RecvBuffer(s)     == IF s[2] = 0 THEN FinDelProceso ELSE SubSeq(s, 3, s[2] + 2)
TrasBuffer(s)     == SubSeq(s, s[2] + 3, Len(s))
=============================================================================
