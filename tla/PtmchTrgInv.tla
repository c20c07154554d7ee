------------------------------ MODULE PtmchTrgInv ------------------------------
(***************************************************************************)
(* The inductive invariant of the front end.  HeldIsSent and               *)
(* TriggerOwnClass follow from it; PtmchTrg_proofs proves it.              *)
(***************************************************************************)
EXTENDS PtmchTrg

Empty == sr_inst_cnt = 0 /\ sr_inst_sht = Zero
InStep == sr_inst_cnt = Len(sent) /\ sr_inst_sht = SentWord
NoTrigger == \A c \in Channels : TRG_PLS[c] # 1

(* A full count k stages into its synchroniser is followed by k - 1 stages *)
(* of the final shift register: what reaches sr_inst_chk is that register, *)
(* never a torn or partial sample of it.                                   *)
PipelineInv ==
    /\ PTMCH_RST_N = 0 =>
         /\ Empty /\ sr_inst_chk = Zero
         /\ ar_inst_cnt_160M_1d = 0 /\ sr_inst_cnt_160M_2d = 0
         /\ sr_inst_cnt_160M_3d = 0 /\ sr_inst_cnt_160M_sync = 0
    /\ ar_inst_cnt_160M_1d >= InstLen => sr_inst_cnt = InstLen
    /\ sr_inst_cnt_160M_2d >= InstLen =>
         sr_inst_cnt = InstLen /\ ar_inst_sht_160M_1d = sr_inst_sht
    /\ sr_inst_cnt_160M_3d >= InstLen =>
         /\ sr_inst_cnt = InstLen /\ ar_inst_sht_160M_1d = sr_inst_sht
         /\ sr_inst_sht_160M_2d = sr_inst_sht
    /\ sr_inst_cnt_160M_sync >= InstLen =>
         /\ sr_inst_cnt = InstLen /\ ar_inst_sht_160M_1d = sr_inst_sht
         /\ sr_inst_sht_160M_2d = sr_inst_sht /\ sr_inst_sht_160M_3d = sr_inst_sht
    /\ sr_inst_chk # Zero => sr_inst_cnt = InstLen /\ sr_inst_chk = sr_inst_sht

(* No fall of CS is on its way to PTMCH_RST_N.                             *)
Calm ==
    /\ RESET_N = 1 /\ PTMCH_RST_N = 1 /\ sr_cs_edge_n = 1
    /\ sr_spi_cs_3d = 1 => sr_spi_cs_2d = 1
    /\ sr_spi_cs_2d = 1 => ar_spi_cs_1d = 1
    /\ ar_spi_cs_1d = 1 => SPI_CS = 1

(* Where the fall of CS has got to, csAge edges after it.                  *)
FallUnderWay ==
    /\ RESET_N = 1 /\ SPI_CS = 0
    /\ \/ csAge = 0 /\ ar_spi_cs_1d = 1
       \/ csAge = 1 /\ ar_spi_cs_1d = 0 /\ sr_spi_cs_2d = 1
       \/ csAge = 2 /\ ar_spi_cs_1d = 0 /\ sr_spi_cs_2d = 0 /\ sr_spi_cs_3d = 1
       \/ /\ csAge = 3 /\ ar_spi_cs_1d = 0 /\ sr_spi_cs_2d = 0 /\ sr_spi_cs_3d = 0
          /\ sr_cs_edge_n = 0
       \/ /\ csAge = 4 /\ ar_spi_cs_1d = 0 /\ sr_spi_cs_2d = 0 /\ sr_spi_cs_3d = 0
          /\ sr_cs_edge_n = 1 /\ PTMCH_RST_N = 0

(* The frame reset is over before the first bit: from CS falling on the    *)
(* fall is either under way or has left everything clear, and from the     *)
(* first bit on the registers hold exactly the bits of the frame.          *)
FrameInv ==
    /\ RESET_N = 1 /\ SPI_CS = 1 /\ csAge >= 1 => ar_spi_cs_1d = 1
    /\ fresh => \/ FallUnderWay
                \/ /\ Calm /\ Empty /\ sr_inst_chk = Zero /\ NoTrigger
                   /\ SPI_CS = 1 \/ csAge >= 5
    /\ clean => InStep \/ Empty
    /\ clean /\ ~fresh => Calm /\ InStep

FrontInv == PipelineInv /\ FrameInv /\ TriggerOwnClass
=============================================================================
