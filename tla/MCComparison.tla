---------------------------- MODULE MCComparison ----------------------------
(***************************************************************************)
(* Comparison with 4-bit W registers and 8-bit X registers: values around  *)
(* every boundary of both widths, every shift of the second operand.       *)
(***************************************************************************)
EXTENDS Comparison

MCValues == {0, 1, 2, 6, 7, 8, 9, 14, 15, 16, 23, 24, 100, 126, 127, 128,
             129, 135, 136, 143, 240, 247, 248, 254, 255}

MCSetters ==
    [op : {"arith_reg"}, sf : Sizes, opc : {ADDS_OPC, SUBS_OPC},
     shift : {LSL_VALUE, LSR_VALUE, ASR_VALUE}, rm : {1},
     amount : {0, 1, 3}, rn : {0}, rd : {ZR_REG}]

MCOthers ==
    {[op |-> "wide_move", sf |-> SF64, opc |-> MOVZ_OPC, rd |-> 0,
      hw |-> 0, imm |-> 1],
     [op |-> "multiply_reg", sf |-> SF32, x |-> MSUB_X, rm |-> 1, ra |-> 0,
      rn |-> 1, rd |-> 1],
     [op |-> "logic_reg", sf |-> SF32, opc |-> EON_OPC, n |-> 1,
      shift |-> ROR_VALUE, rm |-> 1, amount |-> 2, rn |-> 0, rd |-> 0]}
=============================================================================
