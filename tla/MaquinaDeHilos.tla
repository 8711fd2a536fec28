---------------------------- MODULE MaquinaDeHilos ----------------------------
(***************************************************************************)
(* What the CPU and memoria promise to the threads together: each runs its *)
(* own program, one instruction at a time, with registers nobody else      *)
(* touches, over the user memory, as if it had a machine of its own.       *)
(* Nothing here of messages, contexts, interrupts or the order of threads. *)
(* The promise ends if two searches of memoria cross (sano).               *)
(***************************************************************************)
EXTENDS Naturals, Sequences

CONSTANTS Hilos,      \* <<pid, tid>>
          Programa,   \* the instructions of each thread
          Registros,  \* general registers
          Direcciones,   \* of the bytes of the user memory
          Base, Limite,  \* of the partition of each process
          Celda,      \* values a byte may have
          BytesPorPalabra

VARIABLES pc, reg, mem,
          estado,     \* "corre", "sale" or "falla" until the kernel decides, "fin"
          sano

vars == <<pc, reg, mem, estado, sano>>

Peso[i \in 1..(BytesPorPalabra + 1)] == IF i = 1 THEN 1 ELSE Celda * Peso[i - 1]
Palabra == Peso[BytesPorPalabra + 1]

Init ==
  /\ pc = [h \in Hilos |-> 0]
  /\ reg = [h \in Hilos |-> [r \in Registros |-> 0]]
  /\ mem = [x \in Direcciones |-> 0]
  /\ estado = [h \in Hilos |-> "corre"]
  /\ sano = TRUE

Sigue(h)      == pc' = [pc EXCEPT ![h] = @ + 1]
Pone(h, r, v) == reg' = [reg EXCEPT ![h][r] = v]
Falla(h)      == estado' = [estado EXCEPT ![h] = "falla"]

Set(h, i) ==
  /\ i.op = "SET" /\ Sigue(h)
  /\ IF i.a \in Registros THEN Pone(h, i.a, i.n) /\ UNCHANGED estado
                          ELSE Falla(h) /\ UNCHANGED reg
  /\ UNCHANGED mem

\* An instruction with a register that does not exist fails.
Conocidos(i) == {i.a, i.b} \subseteq Registros

Operar(h, i) == IF i.op = "SUM" THEN (reg[h][i.a] + reg[h][i.b]) % Palabra
                ELSE (Palabra + reg[h][i.a] - reg[h][i.b]) % Palabra

SumOSub(h, i) ==
  /\ i.op \in {"SUM", "SUB"} /\ Sigue(h)
  /\ IF Conocidos(i) THEN Pone(h, i.a, Operar(h, i)) /\ UNCHANGED estado
                     ELSE Falla(h) /\ UNCHANGED reg
  /\ UNCHANGED mem

\* A jump that fails stays where it is.
Jnz(h, i) ==
  /\ i.op = "JNZ"
  /\ IF i.a \in Registros
     THEN /\ pc' = [pc EXCEPT ![h] = IF reg[h][i.a] # 0 THEN i.n ELSE @ + 1]
          /\ UNCHANGED estado
     ELSE Falla(h) /\ UNCHANGED pc
  /\ UNCHANGED <<reg, mem>>

\* A word may start anywhere from the first byte of the partition to the one
\* that follows the last.
Direccion(h, r) == Base[h[1]] + reg[h][r]
Alcanza(h, r)   == Direccion(h, r) <= Limite[h[1]] + 1
PalabraEn(d) ==
  LET f[i \in 0..BytesPorPalabra] ==
        IF i = 0 THEN 0 ELSE f[i - 1] + mem[d + i - 1] * Peso[i]
  IN  f[BytesPorPalabra]

\* Reading a zero leaves the register as it was.
ReadMem(h, i) ==
  /\ i.op = "READ_MEM" /\ Sigue(h)
  /\ IF Conocidos(i) /\ Alcanza(h, i.b)
     THEN /\ Pone(h, i.a, IF PalabraEn(Direccion(h, i.b)) = 0 THEN reg[h][i.a]
                          ELSE PalabraEn(Direccion(h, i.b)))
          /\ UNCHANGED estado
     ELSE Falla(h) /\ UNCHANGED reg
  /\ UNCHANGED mem

WriteMem(h, i) ==
  /\ i.op = "WRITE_MEM" /\ Sigue(h)
  /\ LET d == Direccion(h, i.a)
     IN  IF Conocidos(i) /\ Alcanza(h, i.a)
         THEN /\ mem' = [x \in Direcciones |->
                           IF x \in d..(d + BytesPorPalabra - 1)
                           THEN (reg[h][i.b] \div Peso[x - d + 1]) % Celda ELSE mem[x]]
              /\ UNCHANGED estado
         ELSE Falla(h) /\ UNCHANGED mem
  /\ UNCHANGED reg

Log(h, i) ==
  /\ i.op = "LOG" /\ Sigue(h)
  /\ IF i.a \in Registros THEN UNCHANGED estado ELSE Falla(h)
  /\ UNCHANGED <<reg, mem>>

\* The syscalls that come back to the next instruction.
Syscall(h, i) ==
  /\ i.op \in {"MUTEX_LOCK", "DUMP_MEMORY"} /\ Sigue(h)
  /\ UNCHANGED <<reg, mem, estado>>

ThreadExit(h, i) ==
  /\ i.op = "THREAD_EXIT" /\ Sigue(h)
  /\ estado' = [estado EXCEPT ![h] = "sale"]
  /\ UNCHANGED <<reg, mem>>

ProcessExit(h, i) ==
  /\ i.op = "PROCESS_EXIT"
  /\ estado' = [estado EXCEPT ![h] = "sale"]
  /\ UNCHANGED <<pc, reg, mem>>

Instruccion(h, i) ==
  \/ Set(h, i) \/ SumOSub(h, i) \/ Jnz(h, i)
  \/ ReadMem(h, i) \/ WriteMem(h, i) \/ Log(h, i)
  \/ Syscall(h, i) \/ ThreadExit(h, i) \/ ProcessExit(h, i)

Ejecuta(h) ==
  /\ estado[h] = "corre" /\ pc[h] < Len(Programa[h])
  /\ \E i \in {Programa[h][pc[h] + 1]} : Instruccion(h, i)

\* The kernel takes the thread away, or its whole process.
Termina(h) ==
  /\ estado[h] \in {"sale", "falla"}
  /\ \E S \in {{h}, {g \in Hilos : g[1] = h[1]}} :
       estado' = [g \in Hilos |-> IF g \in S THEN "fin" ELSE estado[g]]
  /\ UNCHANGED <<pc, reg, mem>>

\* PROCESS_EXIT by another thread than the main one is ignored.
Ignora(h) ==
  /\ estado[h] = "sale" /\ h[2] # 0
  /\ pc[h] < Len(Programa[h]) /\ Programa[h][pc[h] + 1].op = "PROCESS_EXIT"
  /\ Sigue(h)
  /\ estado' = [estado EXCEPT ![h] = "corre"]
  /\ UNCHANGED <<reg, mem>>

\* A quantum that ends just then hides an error: the thread goes on.
Perdona(h) ==
  /\ estado[h] = "falla"
  /\ estado' = [estado EXCEPT ![h] = "corre"]
  /\ UNCHANGED <<pc, reg, mem>>

Next ==
  \/ sano /\ sano' /\ \E h \in Hilos : Ejecuta(h) \/ Termina(h) \/ Ignora(h) \/ Perdona(h)
  \/ ~sano'

Spec == Init /\ [][Next]_vars
=============================================================================
