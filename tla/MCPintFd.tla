------------------------------ MODULE MCPintFd ------------------------------
(* Input files with and without a final newline, empty, with an empty line,  *)
(* with a line the register holds in part only, and with one that overruns   *)
(* the host's buffer.  The run starts when the design has had Before files   *)
(* open and has closed them all, so that the opens of the run cross from the *)
(* first row of channel words to the second.                                 *)
EXTENDS PintFd

CONSTANT Before

MCContents ==
  {<<>>, <<"a">>, <<"a", Return>>, <<Newline, "a">>, <<"a", "a", "a", Newline>>,
   <<"a", "a", "a", "a", Newline>>}

MCInit ==
  /\ InitFiles
  /\ pint_vpi_fd = [n \in 1 .. Before |-> n + 2]
  /\ \E f \in OutFile :
       chan = [n \in 1 .. Before |->
                 [vpi |-> CHOOSE w \in Words(n) : TRUE, fd |-> n + 2, file |-> f, mode |-> "w"]]

MCSpec == MCInit /\ [][Next]_vars /\ WF_vars(Reader)
=============================================================================
