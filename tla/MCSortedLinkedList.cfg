CONSTANTS
    Keys = {k1, k2, k3, k4, k5}
    Zero = zero
    MaxValue = 2
    ShownUnit = 4
SYMMETRY Symmetry
SPECIFICATION MedianSpec
INVARIANTS WalksAgree OneCorrectHintSuffices MedianIsMedian UpvoteRefusedBetweenTies HintsRefusedOnlyWhenOvertaken
PROPERTY ImplementsSortedList
