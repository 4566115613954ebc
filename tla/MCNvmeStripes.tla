--------------------------- MODULE MCNvmeStripes ----------------------------
(***************************************************************************)
(* Pages of two bytes and blocks of one page.                              *)
(***************************************************************************)
EXTENDS NvmeStripes, TLC

(* Every failed open or transfer that the code reports: those of           *)
(* nvme_read_pwrite are not.                                               *)
ReportedFaults == {<<"io_uring", "write">>, <<"io_uring", "read">>, <<"pwrite", "write">>}

(* A tensor of three blocks beside one that leaves the first stripe empty; *)
(* two tensors with a padded block in the first stripe.                    *)
TwoTensors == {<<5, 1>>, <<3, 3>>}
=============================================================================
