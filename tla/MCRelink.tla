------------------------------- MODULE MCRelink -------------------------------
EXTENDS Relink, Samples

MCDesigns == <<Hierarchy, Implicit, Classes, Vhdl, Scripts>>
MCGhost == <<Classes>>
MCFold == ("Core" :> "core")
MCRoles == ("uvm_test" :> "test")
MCTb == {"tb"}
MCQualified == << >>
MCGlobs == ("c*" :> {"clk", "core"})
MCPin == ("u/clk" :> "clk")
MCRoot == ("/p/one" :> "one")
=============================================================================
