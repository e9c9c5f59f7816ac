\* Any sequence of runs of the three tools, each killed anywhere.
CONSTANTS
    Tools = {"hw_test_new", "hw_test", "conf_port"}
SPECIFICATION Spec
INVARIANTS EnabledIsConfigured TestedAddresses RegionsStayUp
